---------------------------- MODULE Spec2Model ----------------------------
(***************************************************************************)
(* A model of the curve fitter of the motive animation pipeline            *)
(* (src/src/anim_pipeline/anim_pipeline.cpp, class FlatAnim).              *)
(*                                                                         *)
(* FlatTime is an int and is modelled as an integer.  FlatVal and          *)
(* FlatDerivative are floats; they are modelled as exact rationals         *)
(* [n |-> numerator, d |-> denominator > 0] in lowest terms, so that every *)
(* comparison the code makes is decided exactly (rounding is not           *)
(* modelled).  DerivativeAngle is atan, which is odd and strictly          *)
(* increasing: fabs(atan(x)) < a is the same as fabs(x) < tan(a), so the   *)
(* two derivative-angle tolerances are held as the slopes tan(a).          *)
(***************************************************************************)
EXTENDS Integers, Sequences, FiniteSets, TLC

VARIABLES
  bones_,           \* FlatAnim::bones_: the bones, each with its channels
  cur_bone_index_,  \* FlatAnim::cur_bone_index_ (-1: none; else 0-based)
  tolerances_,      \* FlatAnim::tolerances_
  pc,               \* where the caller of FlatAnim is
  stack,            \* the pending invocations of AddCurve, innermost first
  curve,            \* the arguments of the running top-level AddCurve call
  before,           \* history: the data the last operation started from
  log               \* history: what the last operation did

vars == <<bones_, cur_bone_index_, tolerances_, pc, stack, curve, before, log>>

---------------------------------------------------------------------------
(* Bounds of the model.                                                    *)

MaxCount == 4        \* samples handed to one AddCurve call: 2..MaxCount
MaxWidth == 3        \* time_end - time_start of an AddCurve call: 0..MaxWidth
MaxNodes == 4        \* nodes of a channel handed to PruneNodes: 2..MaxNodes
MaxTime == 2         \* node times of the channels handed to SumChannels: 0..MaxTime
MaxPipeWidth == 2    \* time between two keys of that curve: 0..MaxPipeWidth

---------------------------------------------------------------------------
(* MatrixOperationType.                                                    *)

kInvalidMatrixOperation == 0
kRotateAboutX == 1
kRotateAboutY == 2
kRotateAboutZ == 3
kTranslateX == 4
kTranslateY == 5
kTranslateZ == 6
kScaleX == 7
kScaleY == 8
kScaleZ == 9
kScaleUniformly == 10

RotateOp(op) == kRotateAboutX <= op /\ op <= kRotateAboutZ
TranslateOp(op) == kTranslateX <= op /\ op <= kTranslateZ
ScaleOp(op) == kScaleX <= op /\ op <= kScaleUniformly

---------------------------------------------------------------------------
(* FlatVal / FlatDerivative arithmetic: exact rationals.                   *)

Abs(x) == IF x < 0 THEN -x ELSE x

RECURSIVE Gcd(_, _)
Gcd(a, b) == IF b = 0 THEN a ELSE Gcd(b, a % b)

Rat(n, d) ==
  LET g == Gcd(Abs(n), Abs(d))
  IN  IF d < 0 THEN [n |-> (-n) \div g, d |-> (-d) \div g]
               ELSE [n |-> n \div g, d |-> d \div g]

FromInt(i) == [n |-> i, d |-> 1]
RAdd(a, b) == Rat(a.n * b.d + b.n * a.d, a.d * b.d)
RSub(a, b) == Rat(a.n * b.d - b.n * a.d, a.d * b.d)
RMul(a, b) == Rat(a.n * b.n, a.d * b.d)
RDiv(a, b) == Rat(a.n * b.d, a.d * b.n)
RAbs(a) == [n |-> Abs(a.n), d |-> a.d]
RLess(a, b) == a.n * b.d < b.n * a.d
RLeq(a, b) == a.n * b.d <= b.n * a.d
Zero == FromInt(0)
One == FromInt(1)

\* static_cast<FlatTime>(float) of a non-negative value: truncation.
TruncToTime(a) == a.n \div a.d

\* fabs(DerivativeAngle(derivative)) < angle_tolerance, the tolerance held
\* as the slope tan(angle_tolerance).
DerivativeAngleWithin(derivative, slope_tolerance) ==
  RLess(RAbs(derivative), slope_tolerance)

---------------------------------------------------------------------------
(* CubicCurve (motive/math/curve.h, not among the sources): the two-point  *)
(* Hermite cubic of the specification, section 4.1.                        *)

CubicInit(start_y, start_derivative, end_y, end_derivative, width_x) ==
  [start_y |-> start_y, start_derivative |-> start_derivative,
   end_y |-> end_y, end_derivative |-> end_derivative, width_x |-> width_x]

\* The coefficients c0..c3 of f(x) = c3 x^3 + c2 x^2 + c1 x + c0 with
\* f(0) = start_y, f'(0) = start_derivative, f(w) = end_y, f'(w) =
\* end_derivative; for w = 0 the line through the start values.
CubicCurve(init) ==
  LET w == init.width_x
      dy == RSub(init.end_y, init.start_y)
      s0 == init.start_derivative
      s1 == init.end_derivative
  IN  IF w.n = 0
      THEN <<init.start_y, s0, Zero, Zero>>
      ELSE <<init.start_y,
             s0,
             RSub(RDiv(RMul(FromInt(3), dy), RMul(w, w)),
                  RDiv(RAdd(s1, RMul(FromInt(2), s0)), w)),
             RAdd(RDiv(RMul(FromInt(-2), dy), RMul(w, RMul(w, w))),
                  RDiv(RAdd(s1, s0), RMul(w, w)))>>

Evaluate(c, x) ==
  RAdd(RMul(RAdd(RMul(RAdd(RMul(c[4], x), c[3]), x), c[2]), x), c[1])

Derivative(c, x) ==
  RAdd(RMul(RAdd(RMul(RMul(FromInt(3), c[4]), x),
                 RMul(FromInt(2), c[3])), x), c[2])

---------------------------------------------------------------------------
(* FlatAnim: nodes, channels, bones.                                       *)

SplineNode(time, val, derivative) ==
  [time |-> time, val |-> val, derivative |-> derivative]

Channel(op, id) == [op |-> op, id |-> id, nodes |-> <<>>]

Bone(parent_bone_index) ==
  [parent_bone_index |-> parent_bone_index, channels |-> <<>>]

\* CurChannels(): the channels of the current bone.
CurChannels == bones_[cur_bone_index_ + 1].channels

ToleranceForOp(op) ==
  IF RotateOp(op) THEN tolerances_.rotate
  ELSE IF TranslateOp(op) THEN tolerances_.translate
  ELSE IF ScaleOp(op) THEN tolerances_.scale
  ELSE Rat(1, 10)

Tolerance(channel_id) == ToleranceForOp(CurChannels[channel_id + 1].op)

\* The current bone's channel channel_id with its nodes replaced.
WithNodes(channel_id, n) ==
  [bones_ EXCEPT ![cur_bone_index_ + 1].channels[channel_id + 1].nodes = n]

---------------------------------------------------------------------------
(* FlatAnim::AddCurve.  An invocation is a frame                           *)
(* [time_start, time_end, first, count]: vals and derivatives of the       *)
(* invocation are curve.vals[first .. first + count - 1], C index i at     *)
(* first + i.                                                              *)

Frame(time_start, time_end, first, count) ==
  [time_start |-> time_start, time_end |-> time_end,
   first |-> first, count |-> count]

FrameVal(f, i) == curve.vals[f.first + i]
FrameDerivative(f, i) == curve.derivatives[f.first + i]

TimeWidth(f) == FromInt(f.time_end - f.time_start)

FrameCubic(f) ==
  CubicCurve(CubicInit(FrameVal(f, 0), FrameDerivative(f, 0),
                       FrameVal(f, f.count - 1),
                       FrameDerivative(f, f.count - 1), TimeWidth(f)))

\* time_inc = time_width / (count - 1)
TimeInc(f) == RDiv(TimeWidth(f), FromInt(f.count - 1))

\* The loop over the intermediate vals: i is the loop index, time the
\* running time, worst the record [idx, diff, time] found so far.
RECURSIVE WorstLoop(_, _, _, _)
WorstLoop(f, i, time, worst) ==
  IF i >= f.count - 1 THEN worst
  ELSE LET c == FrameCubic(f)
           cubic_val == Evaluate(c, time)
           curve_val == FrameVal(f, i)
           diff_val == RAbs(RSub(cubic_val, curve_val))
           next == IF RLess(worst.diff, diff_val)
                   THEN [idx |-> i, diff |-> diff_val, time |-> time]
                   ELSE worst
       IN  WorstLoop(f, i + 1, RAdd(time, TimeInc(f)), next)

Worst(f) ==
  WorstLoop(f, 1, TimeInc(f), [idx |-> 0, diff |-> Zero, time |-> Zero])

\* A test that splits at any deviation at all.
MustSplit_AnyDeviation(f, tolerance) ==
  LET worst == Worst(f)
  IN  worst.idx > 0 /\ RLess(Zero, worst.diff)

\* worst_idx > 0 && worst_diff > tolerance
MustSplit(f, tolerance) ==
  LET worst == Worst(f)
  IN  worst.idx > 0 /\ RLess(tolerance, worst.diff)

\* (mutant) the left invocation is handed one sample too many.
SplitFrames_LeftTooLong(f) ==
  LET worst == Worst(f)
      time_mid == f.time_start + TruncToTime(worst.time)
  IN  <<Frame(f.time_start, time_mid, f.first, worst.idx + 2),
        Frame(time_mid, f.time_end, f.first + worst.idx, f.count - worst.idx)>>

\* The two recursive invocations, the left one first.
SplitFrames(f) ==
  LET worst == Worst(f)
      time_mid == f.time_start + TruncToTime(worst.time)
  IN  <<Frame(f.time_start, time_mid, f.first, worst.idx + 1),
        Frame(time_mid, f.time_end, f.first + worst.idx, f.count - worst.idx)>>

\* The nodes after recording the cubic of invocation f.
EmitNodes(n, f) ==
  LET start_node == SplineNode(f.time_start, FrameVal(f, 0),
                               FrameDerivative(f, 0))
      end_node == SplineNode(f.time_end, FrameVal(f, f.count - 1),
                             FrameDerivative(f, f.count - 1))
      start_matches_prev == Len(n) > 0 /\ n[Len(n)] = start_node
  IN  IF start_matches_prev THEN Append(n, end_node)
      ELSE Append(Append(n, start_node), end_node)

---------------------------------------------------------------------------
(* The fitter on one channel: a caller hands one curve segment to AddCurve *)
(* on an empty channel (FbxAnimParser::GatherFlatAnimCurve).               *)

SampleVals == {FromInt(0), FromInt(1), FromInt(2)}
SampleDerivatives == {FromInt(0), FromInt(1)}
StartTimes == {3}
FitTolerances ==
  [scale |-> Rat(1, 5), rotate |-> Rat(1, 5), translate |-> Rat(1, 5),
   derivative_angle |-> One, repeat_derivative_angle |-> FromInt(2)]

InitAddCurve ==
  /\ bones_ = <<[Bone(-1) EXCEPT !.channels = <<Channel(kTranslateX, 0)>>]>>
  /\ cur_bone_index_ = 0
  /\ tolerances_ = FitTolerances
  /\ pc = "gather"
  /\ stack = <<>>
  /\ curve = [time_start |-> 0, time_end |-> 0, vals |-> <<>>,
              derivatives |-> <<>>]
  /\ before = <<>>
  /\ log = <<>>

\* The call AddCurve(0, time_start, time_end, vals, derivatives, count).
AddCurveCall ==
  /\ pc = "gather"
  /\ \E count \in 2..MaxCount, time_start \in StartTimes, width \in 0..MaxWidth :
       \E vals \in [1..count -> SampleVals],
          derivatives \in [1..count -> SampleDerivatives] :
         /\ curve' = [time_start |-> time_start, time_end |-> time_start + width,
                      vals |-> vals, derivatives |-> derivatives]
         /\ stack' = <<Frame(time_start, time_start + width, 1, count)>>
  /\ pc' = "fitting"
  /\ log' = <<>>
  /\ UNCHANGED <<bones_, cur_bone_index_, tolerances_, before>>

\* One invocation of AddCurve runs: it recurses twice, or records its cubic.
AddCurveSplit ==
  /\ pc = "fitting" /\ stack # <<>>
  /\ MustSplit(Head(stack), Tolerance(0))
  /\ stack' = SplitFrames(Head(stack)) \o Tail(stack)
  /\ log' = Append(log, [call |-> Head(stack), split |-> TRUE])
  /\ UNCHANGED <<bones_, cur_bone_index_, tolerances_, pc, curve, before>>

AddCurveEmit ==
  /\ pc = "fitting" /\ stack # <<>>
  /\ ~MustSplit(Head(stack), Tolerance(0))
  /\ bones_' = WithNodes(0, EmitNodes(CurChannels[1].nodes, Head(stack)))
  /\ stack' = Tail(stack)
  /\ log' = Append(log, [call |-> Head(stack), split |-> FALSE])
  /\ pc' = IF Tail(stack) = <<>> THEN "fitted" ELSE "fitting"
  /\ UNCHANGED <<cur_bone_index_, tolerances_, curve, before>>

NextAddCurve == AddCurveCall \/ AddCurveSplit \/ AddCurveEmit

SpecAddCurve == InitAddCurve /\ [][NextAddCurve]_vars

---------------------------------------------------------------------------
(* Claims about AddCurve.                                                  *)

CurveCount == Len(curve.vals)

\* The time of input sample i (C index) of the top-level call: the samples
\* are evenly spaced over [time_start, time_end].
SampleTime(i) ==
  RAdd(FromInt(curve.time_start),
       RDiv(FromInt(i * (curve.time_end - curve.time_start)),
            FromInt(CurveCount - 1)))

\* The cubic between two nodes, as EvaluateNodes and the runtime build it.
NodeCubic(a, b) ==
  CubicCurve(CubicInit(a.val, a.derivative, b.val, b.derivative,
                       FromInt(b.time - a.time)))

\* The deviation of the cubic between nodes a and b from sample i.
FitError(a, b, i) ==
  RAbs(RSub(Evaluate(NodeCubic(a, b), RSub(SampleTime(i), FromInt(a.time))),
            curve.vals[i + 1]))

StrictlyBetween(a, b, i) ==
  RLess(FromInt(a.time), SampleTime(i)) /\ RLess(SampleTime(i), FromInt(b.time))

FittedNodes == bones_[1].channels[1].nodes

\* C1: after AddCurve on an empty channel, the cubic of every pair of
\* adjacent nodes is within the channel tolerance (strictly) of every input
\* sample whose time lies strictly between the two nodes.
C1_FitBound ==
  pc = "fitted" =>
    \A k \in 1..(Len(FittedNodes) - 1) : \A i \in 0..(CurveCount - 1) :
      StrictlyBetween(FittedNodes[k], FittedNodes[k + 1], i) =>
        RLess(FitError(FittedNodes[k], FittedNodes[k + 1], i), Tolerance(0))

\* C2: an invocation with count samples either recurses into two
\* invocations, each with at least 2 and fewer than count samples, or
\* records its cubic (its end node becomes the channel's last node) and
\* returns; an invocation with 2 samples always records.
C2_RecursionShrinks ==
  [][(pc = "fitting" /\ stack # <<>>) =>
       LET f == Head(stack)
           n == bones_[1].channels[1].nodes
           m == bones_'[1].channels[1].nodes
       IN  \/ /\ f.count > 2
              /\ Len(stack') = Len(stack) + 1
              /\ SubSeq(stack', 3, Len(stack')) = Tail(stack)
              /\ stack'[1].count >= 2 /\ stack'[1].count < f.count
              /\ stack'[2].count >= 2 /\ stack'[2].count < f.count
              /\ m = n
           \/ /\ stack' = Tail(stack)
              /\ Len(m) > Len(n)
              /\ m[Len(m)] = SplineNode(f.time_end, FrameVal(f, f.count - 1),
                                        FrameDerivative(f, f.count - 1))]_vars

\* C2 witness: a finished call that recursed at least twice and reached
\* invocations with exactly 2 samples.
C2_Witness ==
  /\ pc = "fitted"
  /\ Cardinality({k \in 1..Len(log) : log[k].split}) >= 2
  /\ \E k \in 1..Len(log) : log[k].call.count = 2 /\ ~log[k].split

---------------------------------------------------------------------------
(* FlatAnim::PruneNodes and its helpers.  Sequences are indexed from 1;    *)
(* the C index i of a vector is element i + 1.                             *)

\* EqualNodes compares a.val with itself, as the source does.
EqualNodes(a, b, tolerance, derivative_tolerance) ==
  /\ a.time = b.time
  /\ RLess(RAbs(RSub(a.val, a.val)), tolerance)
  /\ DerivativeAngleWithin(RSub(a.derivative, b.derivative),
                           derivative_tolerance)

\* mid_on_c: node mid is close to the cubic c that starts at node start.
MidOnCubic(c, start, mid, tolerance) ==
  LET mid_time == FromInt(mid.time - start.time)
      mid_val == Evaluate(c, mid_time)
      mid_derivative == Derivative(c, mid_time)
  IN  /\ RLess(RAbs(RSub(mid_val, mid.val)), tolerance)
      /\ DerivativeAngleWithin(RSub(mid_derivative, mid.derivative),
                               tolerances_.derivative_angle)

\* IntermediateNodesRedundant(&n[i], len, tolerance): n is the whole vector,
\* i the C index of the first node of the span.
IntermediateNodesRedundant(n, i, len, tolerance) ==
  LET start == n[i + 1]
      end == n[i + len]
  IN  \/ EqualNodes(start, end, tolerance, tolerances_.derivative_angle)
      \/ LET c == CubicCurve(CubicInit(start.val, start.derivative, end.val,
                                       end.derivative,
                                       FromInt(end.time - start.time)))
         IN  \A k \in 1..(len - 2) : MidOnCubic(c, start, n[i + 1 + k], tolerance)

\* The inner loop of PruneNodes over j, for the anchor i: st is
\* [prune, next_i].
RECURSIVE PruneInner(_, _, _, _, _)
PruneInner(n, tolerance, i, j, st) ==
  IF j >= Len(n) THEN st
  ELSE LET redundant == IntermediateNodesRedundant(n, i, j - i + 1, tolerance)
       IN  PruneInner(n, tolerance, i, j + 1,
                      IF redundant
                      THEN [prune |-> [st.prune EXCEPT ![j] = TRUE],
                            next_i |-> j]
                      ELSE st)

\* The outer loop of PruneNodes over the anchors i: the vector prune.
RECURSIVE PruneOuter(_, _, _, _)
PruneOuter(n, tolerance, i, prune) ==
  IF i >= Len(n) THEN prune
  ELSE LET st == PruneInner(n, tolerance, i, i + 2,
                            [prune |-> prune, next_i |-> i + 1])
       IN  PruneOuter(n, tolerance, st.next_i, st.prune)

PruneMarks(n, tolerance) ==
  PruneOuter(n, tolerance, 0, [k \in 1..Len(n) |-> FALSE])

\* A compaction that writes the kept nodes from the back.
RECURSIVE Compact_Reversed(_, _, _)
Compact_Reversed(n, prune, read) ==
  IF read > Len(n) THEN <<>>
  ELSE IF prune[read] THEN Compact_Reversed(n, prune, read + 1)
  ELSE Compact_Reversed(n, prune, read + 1) \o <<n[read]>>

\* "Compact to remove all pruned nodes."
RECURSIVE Compact(_, _, _)
Compact(n, prune, read) ==
  IF read > Len(n) THEN <<>>
  ELSE IF prune[read] THEN Compact(n, prune, read + 1)
  ELSE <<n[read]>> \o Compact(n, prune, read + 1)

\* A constant test that looks at the derivatives only.
IsConst_DerivativesOnly(n, tolerance) ==
  /\ Len(n) = 2
  /\ DerivativeAngleWithin(n[1].derivative, tolerances_.derivative_angle)
  /\ DerivativeAngleWithin(n[2].derivative, tolerances_.derivative_angle)

IsConst(n, tolerance) ==
  /\ Len(n) = 2
  /\ RLess(RAbs(RSub(n[1].val, n[2].val)), tolerance)
  /\ DerivativeAngleWithin(n[1].derivative, tolerances_.derivative_angle)
  /\ DerivativeAngleWithin(n[2].derivative, tolerances_.derivative_angle)

\* The vector prune, is_const and the nodes PruneNodes leaves.
PruneNodesOf(n, tolerance) ==
  LET prune == PruneMarks(n, tolerance)
      compacted == Compact(n, prune, 1)
      is_const == IsConst(compacted, tolerance)
  IN  [prune |-> prune, is_const |-> is_const,
       nodes |-> IF is_const THEN SubSeq(compacted, 1, 1) ELSE compacted]

---------------------------------------------------------------------------
(* Pruning one channel: the channel holds what AddCurve left for a curve   *)
(* (at least two nodes, in time order), and PruneNodes runs on it, as      *)
(* GatherFlatAnimCurve does, and once more.                                *)

PruneVals == {FromInt(0), FromInt(2)}
PruneDerivatives == {FromInt(0), FromInt(1)}
PruneTolerances ==
  [scale |-> Rat(3, 4), rotate |-> Rat(3, 4), translate |-> Rat(3, 4),
   derivative_angle |-> One, repeat_derivative_angle |-> FromInt(2)]

\* The time between two consecutive nodes.
NodeGaps == {0, 1}

\* The node sequences of length len whose times start at time and grow by
\* a gap of NodeGaps from node to node.
RECURSIVE NodeSeqs(_, _)
NodeSeqs(len, time) ==
  IF len = 0 THEN {<<>>}
  ELSE {<<SplineNode(time, v, d)>> \o rest :
          v \in PruneVals, d \in PruneDerivatives,
          rest \in UNION {NodeSeqs(len - 1, time + gap) : gap \in NodeGaps}}

InitPruneNodes ==
  /\ \E len \in 2..MaxNodes : \E n \in NodeSeqs(len, 0) :
       bones_ = <<[Bone(-1) EXCEPT
                     !.channels = <<[Channel(kTranslateX, 0) EXCEPT !.nodes = n]>>]>>
  /\ cur_bone_index_ = 0
  /\ tolerances_ = PruneTolerances
  /\ pc = "curves"
  /\ stack = <<>>
  /\ curve = [time_start |-> 0, time_end |-> 0, vals |-> <<>>,
              derivatives |-> <<>>]
  /\ before = <<>>
  /\ log = <<>>

\* The call PruneNodes(0).  log gets the vector prune and is_const of the
\* call, before the nodes it started from.
PruneNodes ==
  /\ pc \in {"curves", "pruned"}
  /\ LET n == CurChannels[1].nodes
         pruned == PruneNodesOf(n, Tolerance(0))
     IN  /\ bones_' = WithNodes(0, pruned.nodes)
         /\ before' = n
         /\ log' = Append(log, [prune |-> pruned.prune,
                                is_const |-> pruned.is_const])
  /\ pc' = IF pc = "curves" THEN "pruned" ELSE "pruned_twice"
  /\ UNCHANGED <<cur_bone_index_, tolerances_, stack, curve>>

NextPruneNodes == PruneNodes

SpecPruneNodes == InitPruneNodes /\ [][NextPruneNodes]_vars

---------------------------------------------------------------------------
(* Claims about PruneNodes.                                                *)

PrunedNodes == bones_[1].channels[1].nodes

\* The C indices of the nodes of `before` that the last PruneNodes kept.
Survivors ==
  LET last == log[Len(log)]
      kept == {k \in 0..(Len(before) - 1) : ~last.prune[k + 1]}
  IN  IF last.is_const THEN {k \in kept : \A m \in kept : k <= m} ELSE kept

\* Node k of `before` is within the value tolerance and the derivative-angle
\* tolerance of the cubic built from nodes a and b of `before` alone.
OnCubicOf(a, b, k) ==
  MidOnCubic(NodeCubic(before[a + 1], before[b + 1]), before[a + 1],
             before[k + 1], ToleranceForOp(bones_[1].channels[1].op))

\* C3: after PruneNodes, every removed node that lay strictly between two
\* adjacent surviving nodes a and b is within tolerance of the single cubic
\* built from a and b.
C3_PruningSound ==
  pc = "pruned" =>
    \A a \in Survivors : \A b \in Survivors :
      (a < b /\ \A m \in Survivors : ~(a < m /\ m < b)) =>
        \A k \in (a + 1)..(b - 1) : OnCubicOf(a, b, k)

\* C4: a second PruneNodes leaves the result of the first unchanged.
C4_PruneIdempotent ==
  pc = "pruned_twice" => PrunedNodes = before


---------------------------------------------------------------------------
(* FlatAnim::EvaluateNodes and FlatAnim::SumChannels.  A node pointer is   *)
(* the C index of the node it points at; last_a + 1 is Len(nodes_a).       *)

\* The C index of the first node after index 0 whose time is >= time.
RECURSIVE FirstNodeAfter(_, _, _)
FirstNodeAfter(nodes, time, i) ==
  IF nodes[i + 1].time >= time THEN i ELSE FirstNodeAfter(nodes, time, i + 1)

\* The returned value and *derivative.
EvaluateNodes(nodes, time) ==
  IF time < nodes[1].time THEN [val |-> nodes[1].val, derivative |-> Zero]
  ELSE IF time >= nodes[Len(nodes)].time
  THEN [val |-> nodes[Len(nodes)].val, derivative |-> Zero]
  ELSE LET i == FirstNodeAfter(nodes, time, 1)
           pre == nodes[i]
           post == nodes[i + 1]
           cubic_total_time == FromInt(post.time - pre.time)
           cubic_time == FromInt(time - pre.time)
           cubic == CubicCurve(CubicInit(pre.val, pre.derivative, post.val,
                                         post.derivative, cubic_total_time))
       IN  [val |-> Evaluate(cubic, cubic_time),
            derivative |-> Derivative(cubic, cubic_time)]

\* (mutant) no pointer is moved past the end for a constant channel.
SumStart_KeepConstant(nodes_a, nodes_b) ==
  [node_a |-> 0, node_b |-> 0]

\* The node pointers at the start of the loop: the first constant channel's
\* pointer is moved past the end.
SumStart(nodes_a, nodes_b) ==
  IF Len(nodes_a) = 1 THEN [node_a |-> Len(nodes_a), node_b |-> 0]
  ELSE IF Len(nodes_b) = 1 THEN [node_a |-> 0, node_b |-> Len(nodes_b)]
  ELSE [node_a |-> 0, node_b |-> 0]

\* (mutant) nodes at the same time advance only the pointer that was output.
SumStep_AdvanceOne(nodes_a, nodes_b, node_a, node_b) ==
  LET output_a ==
        /\ node_a < Len(nodes_a)
        /\ (node_b >= Len(nodes_b)
            \/ nodes_a[node_a + 1].time <= nodes_b[node_b + 1].time)
      node_to_output == IF output_a THEN nodes_a[node_a + 1]
                        ELSE nodes_b[node_b + 1]
      interpolated ==
        EvaluateNodes(IF output_a THEN nodes_b ELSE nodes_a, node_to_output.time)
  IN  [node |-> SplineNode(node_to_output.time,
                           RAdd(node_to_output.val, interpolated.val),
                           RAdd(node_to_output.derivative,
                                interpolated.derivative)),
       node_a |-> IF output_a THEN node_a + 1 ELSE node_a,
       node_b |-> IF output_a THEN node_b ELSE node_b + 1]

\* One iteration of the loop: the node pushed on sum and the pointers after.
SumStep(nodes_a, nodes_b, node_a, node_b) ==
  LET output_a ==
        /\ node_a < Len(nodes_a)
        /\ (node_b >= Len(nodes_b)
            \/ nodes_a[node_a + 1].time <= nodes_b[node_b + 1].time)
      node_to_output == IF output_a THEN nodes_a[node_a + 1]
                        ELSE nodes_b[node_b + 1]
      interpolated ==
        EvaluateNodes(IF output_a THEN nodes_b ELSE nodes_a, node_to_output.time)
      both == /\ node_a < Len(nodes_a)
              /\ node_b < Len(nodes_b)
              /\ nodes_a[node_a + 1].time = nodes_b[node_b + 1].time
  IN  [node |-> SplineNode(node_to_output.time,
                           RAdd(node_to_output.val, interpolated.val),
                           RAdd(node_to_output.derivative,
                                interpolated.derivative)),
       node_a |-> IF both \/ output_a THEN node_a + 1 ELSE node_a,
       node_b |-> IF both \/ ~output_a THEN node_b + 1 ELSE node_b]

RECURSIVE SumLoop(_, _, _, _, _)
SumLoop(nodes_a, nodes_b, node_a, node_b, sum) ==
  IF node_a < Len(nodes_a) \/ node_b < Len(nodes_b)
  THEN LET step == SumStep(nodes_a, nodes_b, node_a, node_b)
       IN  SumLoop(nodes_a, nodes_b, step.node_a, step.node_b,
                   Append(sum, step.node))
  ELSE sum

SumNodes(nodes_a, nodes_b) ==
  LET start == SumStart(nodes_a, nodes_b)
  IN  SumLoop(nodes_a, nodes_b, start.node_a, start.node_b, <<>>)

\* SumChannels(channels, ch_a, ch_b): the channels afterwards.
SumChannels(channels, ch_a, ch_b) ==
  [channels EXCEPT ![ch_a + 1].nodes =
     SumNodes(channels[ch_a + 1].nodes, channels[ch_b + 1].nodes)]

---------------------------------------------------------------------------
(* Summing two channels of one bone: both hold the nodes of a curve, at    *)
(* strictly increasing times in 0..MaxTime, or one node of a constant.     *)

SumValsA == {FromInt(0), FromInt(1)}
SumValsB == {FromInt(2)}
SumDerivatives == {FromInt(0), FromInt(1)}

\* The node sequences whose times are the elements of times from `from`
\* on, in increasing order, with values in vals.
RECURSIVE NodesAt(_, _, _)
NodesAt(times, from, vals) ==
  LET later == {t \in times : t >= from}
  IN  IF later = {} THEN {<<>>}
      ELSE LET time == CHOOSE t \in later : \A u \in later : t <= u
           IN  {<<SplineNode(time, v, d)>> \o rest :
                  v \in vals, d \in SumDerivatives,
                  rest \in NodesAt(times, time + 1, vals)}

SumInputs(vals) ==
  UNION {NodesAt(times, 0, vals) : times \in (SUBSET (0..MaxTime)) \ {{}}}

InitSum ==
  /\ \E nodes_a \in SumInputs(SumValsA) : \E nodes_b \in SumInputs(SumValsB) :
       bones_ = <<[Bone(-1) EXCEPT
                     !.channels =
                        <<[Channel(kTranslateX, 0) EXCEPT !.nodes = nodes_a],
                          [Channel(kTranslateX, 1) EXCEPT !.nodes = nodes_b]>>]>>
  /\ cur_bone_index_ = 0
  /\ tolerances_ = PruneTolerances
  /\ pc = "summing"
  /\ stack = <<>>
  /\ curve = [time_start |-> 0, time_end |-> 0, vals |-> <<>>,
              derivatives |-> <<>>]
  /\ before = <<>>
  /\ log = <<>>

\* The call SumChannels(channels, 0, 1); before gets the two inputs.
SumChannelsCall ==
  /\ pc = "summing"
  /\ bones_' = [bones_ EXCEPT ![cur_bone_index_ + 1].channels =
                                 SumChannels(CurChannels, 0, 1)]
  /\ before' = <<CurChannels[1].nodes, CurChannels[2].nodes>>
  /\ pc' = "summed"
  /\ UNCHANGED <<cur_bone_index_, tolerances_, stack, curve, log>>

NextSum == SumChannelsCall

SpecSum == InitSum /\ [][NextSum]_vars


---------------------------------------------------------------------------
(* Claims about SumChannels.                                               *)

SumA == before[1]
SumB == before[2]
Merged == bones_[1].channels[1].nodes
NodeTimes(nodes) == [k \in 1..Len(nodes) |-> nodes[k].time]
InDomain(nodes, t) == nodes[1].time <= t /\ t <= nodes[Len(nodes)].time

\* C5: the merged channel, evaluated as EvaluateNodes does at any time inside
\* the time domains of both inputs, gives the sum of the two inputs'
\* interpolated values at that time.
C5_MergeIsSum ==
  pc = "summed" =>
    \A t \in 0..MaxTime :
      (InDomain(SumA, t) /\ InDomain(SumB, t)) =>
        EvaluateNodes(Merged, t).val =
          RAdd(EvaluateNodes(SumA, t).val, EvaluateNodes(SumB, t).val)

\* C6: two non-constant channels with the same strictly increasing node times
\* sum to a channel with those node times whose values are the sums of the
\* two inputs' node values.
C6_SameTimesSum ==
  (/\ pc = "summed"
   /\ Len(SumA) >= 2
   /\ Len(SumB) >= 2
   /\ NodeTimes(SumA) = NodeTimes(SumB)
   /\ \A k \in 1..(Len(SumA) - 1) : SumA[k].time < SumA[k + 1].time) =>
    /\ NodeTimes(Merged) = NodeTimes(SumA)
    /\ \A k \in 1..Len(SumA) : Merged[k].val = RAdd(SumA[k].val, SumB[k].val)

\* C6 witness: two three-node channels with the same node times and values
\* that are not all zero have been summed.
C6_Witness ==
  /\ pc = "summed"
  /\ Len(SumA) = 3
  /\ NodeTimes(SumA) = NodeTimes(SumB)
  /\ \A k \in 1..3 : SumA[k].val # Zero /\ SumB[k].val # Zero
  /\ \A k \in 1..3 : SumA[k].derivative # Zero

\* C7: when both non-constant inputs have a node at time t, the merged node
\* at t has the sum of the two nodes' derivatives, the last node time of
\* either input included.
C7_SharedTimeDerivative ==
  (pc = "summed" /\ Len(SumA) >= 2 /\ Len(SumB) >= 2) =>
    \A i \in 1..Len(SumA) : \A j \in 1..Len(SumB) :
      SumA[i].time = SumB[j].time =>
        \E k \in 1..Len(Merged) :
          /\ Merged[k].time = SumA[i].time
          /\ Merged[k].derivative = RAdd(SumA[i].derivative, SumB[j].derivative)

\* C8: with exactly one single-node input the sum has the node count, times
\* and derivatives of the other input and each value is that input's value
\* plus the constant; with two single-node inputs the sum is one node whose
\* value is the sum of the two constants.
C8_ConstantInput ==
  pc = "summed" =>
    /\ (Len(SumA) = 1 /\ Len(SumB) > 1) =>
         /\ Len(Merged) = Len(SumB)
         /\ \A k \in 1..Len(SumB) :
              Merged[k] = SplineNode(SumB[k].time,
                                     RAdd(SumB[k].val, SumA[1].val),
                                     SumB[k].derivative)
    /\ (Len(SumA) > 1 /\ Len(SumB) = 1) =>
         /\ Len(Merged) = Len(SumA)
         /\ \A k \in 1..Len(SumA) :
              Merged[k] = SplineNode(SumA[k].time,
                                     RAdd(SumA[k].val, SumB[1].val),
                                     SumA[k].derivative)
    /\ (Len(SumA) = 1 /\ Len(SumB) = 1) =>
         /\ Len(Merged) = 1
         /\ Merged[1].val = RAdd(SumA[1].val, SumB[1].val)

\* C8 witness: a constant with a value and a derivative that are not zero,
\* keyed at a node time of a three-node channel, has been summed into it.
C8_Witness ==
  /\ pc = "summed"
  /\ Len(SumA) = 1
  /\ Len(SumB) = 3
  /\ SumA[1].val # Zero
  /\ SumA[1].derivative # Zero
  /\ SumA[1].time = SumB[2].time
  /\ Merged[2].val = RAdd(SumB[2].val, One)


---------------------------------------------------------------------------
(* FlatAnim::PruneChannels and its helpers.  A channel id ch is the C      *)
(* index of the channel in its bone's vector.                              *)

\* (mutant) the channels are left in the order the loop produced.
SortedById_NoSort(channels) == {channels}

\* (mutant) every operation is given the neutral value 0.
DefaultOpValue_AlwaysZero(op) == Zero

DefaultOpValue(op) == IF ScaleOp(op) THEN One ELSE Zero

\* ToleranceForOp reads tolerances_, which PruneChannels never changes.
IsDefaultValue(op, value) ==
  RLess(RAbs(RSub(value, DefaultOpValue(op))), ToleranceForOp(op))

\* channels.erase(channels.begin() + first, channels.begin() + last)
Erase(channels, first, last) ==
  SubSeq(channels, 1, first) \o SubSeq(channels, last + 1, Len(channels))

\* op_bits == kScaleXyzBitfield: the OR of the three one-bit masks is the
\* mask of exactly kScaleX, kScaleY and kScaleZ.
ScaleXyzOps(c0, c1, c2) == {c0.op, c1.op, c2.op} = {kScaleX, kScaleY, kScaleZ}

UniformScaleChannels(channels, channel_id) ==
  /\ channel_id + 2 < Len(channels)
  /\ LET c0 == channels[channel_id + 1]
         c1 == channels[channel_id + 2]
         c2 == channels[channel_id + 3]
         tolerance == tolerances_.scale
     IN  /\ ScaleXyzOps(c0, c1, c2)
         /\ Len(c0.nodes) = Len(c1.nodes)
         /\ Len(c0.nodes) = Len(c2.nodes)
         /\ \A i \in 1..Len(c0.nodes) :
              /\ EqualNodes(c0.nodes[i], c1.nodes[i], tolerance,
                            tolerances_.derivative_angle)
              /\ EqualNodes(c0.nodes[i], c2.nodes[i], tolerance,
                            tolerances_.derivative_angle)
              /\ EqualNodes(c1.nodes[i], c2.nodes[i], tolerance,
                            tolerances_.derivative_angle)

\* A search that stops at the first later channel of the same op, whatever
\* lies in between.
RECURSIVE SummableFrom_AnyBetween(_, _, _)
SummableFrom_AnyBetween(channels, ch, id) ==
  IF id >= Len(channels) THEN -1
  ELSE IF channels[id + 1].op = channels[ch + 1].op THEN id
  ELSE SummableFrom_AnyBetween(channels, ch, id + 1)

RECURSIVE SummableFrom(_, _, _)
SummableFrom(channels, ch, id) ==
  IF id >= Len(channels) THEN -1
  ELSE LET ch_op == channels[ch + 1].op
           id_op == channels[id + 1].op
       IN  IF id_op = ch_op THEN id
           ELSE IF RotateOp(ch_op) THEN -1
           ELSE IF TranslateOp(ch_op) /\ ~TranslateOp(id_op) THEN -1
           ELSE IF ScaleOp(ch_op) /\ ~ScaleOp(id_op) THEN -1
           ELSE SummableFrom(channels, ch, id + 1)

\* A search that looks at the next channel only.
SummableChannel_NextOnly(channels, ch) ==
  IF ch + 1 < Len(channels) /\ channels[ch + 2].op = channels[ch + 1].op
  THEN ch + 1 ELSE -1

SummableChannel(channels, ch) == SummableFrom(channels, ch, ch + 1)

\* "Collapse kScaleX,Y,Z into kScaleUniformly."
CollapseStep(st, bone, ch) ==
  IF UniformScaleChannels(st.channels, ch)
  THEN LET c == st.channels[ch + 1]
           uniform == [c EXCEPT !.id = c.id + (kScaleUniformly - c.op),
                                !.op = kScaleUniformly]
           erased == Erase([st.channels EXCEPT ![ch + 1] = uniform],
                           ch + 1, ch + 3)
       IN  [channels |-> erased,
            events |-> Append(st.events,
                              [kind |-> "collapse", bone |-> bone, ch |-> ch,
                               from |-> SubSeq(st.channels, ch + 1, ch + 3),
                               to |-> uniform, after |-> erased])]
  ELSE st

\* "Sum together channels that are adjacent, or separated only by
\* independent ops."
SumStepOfPrune(st, bone, ch) ==
  LET summable_ch == SummableChannel(st.channels, ch)
  IN  IF summable_ch >= 0
      THEN LET summed == SumChannels(st.channels, ch, summable_ch)
               erased == Erase(summed, summable_ch, summable_ch + 1)
           IN  [channels |-> erased,
                events |-> Append(st.events,
                                  [kind |-> "sum", bone |-> bone, ch |-> ch,
                                   from |-> <<st.channels[ch + 1],
                                              st.channels[summable_ch + 1]>>,
                                   to |-> summed[ch + 1], after |-> erased,
                                   channels |-> st.channels,
                                   summable_ch |-> summable_ch])]
      ELSE st

\* "Remove constant channels that have the default value."
OmitStep(st, bone, ch) ==
  LET c == st.channels[ch + 1]
  IN  IF Len(c.nodes) = 1 /\ IsDefaultValue(c.op, c.nodes[1].val)
      THEN [channels |-> Erase(st.channels, ch, ch + 1),
            events |-> Append(st.events,
                              [kind |-> "omit", bone |-> bone, ch |-> ch,
                               from |-> <<c>>, to |-> c,
                               after |-> Erase(st.channels, ch, ch + 1)])]
      ELSE st

\* The loop over ch, from the last channel of the bone down to 0.
RECURSIVE PruneChannelsLoop(_, _, _)
PruneChannelsLoop(st, bone, ch) ==
  IF ch < 0 THEN st
  ELSE PruneChannelsLoop(
         OmitStep(SumStepOfPrune(CollapseStep(st, bone, ch), bone, ch),
                  bone, ch),
         bone, ch - 1)

\* std::sort with Channel::operator<: any order of the channels that is
\* ascending in id; channels of equal id may come out in either order.
RECURSIVE SortedById(_)
SortedById(channels) ==
  IF channels = <<>> THEN {<<>>}
  ELSE UNION {{<<channels[i]>> \o rest :
                 rest \in SortedById(Erase(channels, i - 1, i))} :
              i \in {k \in 1..Len(channels) :
                       \A m \in 1..Len(channels) :
                         channels[k].id <= channels[m].id}}

\* The bones of index >= bone after PruneChannels, with the events of the
\* loop: every outcome the sorts allow.
RECURSIVE PruneBonesOf(_, _, _)
PruneBonesOf(bones, bone, events) ==
  IF bone >= Len(bones) THEN {[bones |-> <<>>, events |-> events]}
  ELSE LET st == PruneChannelsLoop([channels |-> bones[bone + 1].channels,
                                    events |-> events],
                                   bone, Len(bones[bone + 1].channels) - 1)
       IN  UNION {{[bones |-> <<[bones[bone + 1] EXCEPT !.channels = sorted]>>
                                 \o rest.bones,
                     events |-> rest.events] :
                     sorted \in SortedById(st.channels)} :
                  rest \in PruneBonesOf(bones, bone + 1, st.events)}

\* PruneChannels() on the bones as they are.
PruneBones(bone, events) == PruneBonesOf(bones_, bone, events)

---------------------------------------------------------------------------
(* Pruning the channels of the bones: the current bone holds the channels  *)
(* GatherFlatAnimForNode has just gathered for it, in the order of its     *)
(* property table; the bone before it was pruned when it was gathered.     *)

\* The default tolerances; the two angles as the slopes tan(0.00873) and
\* tan(0.1745), to four digits.
ChannelTolerances ==
  [scale |-> Rat(5, 1000), rotate |-> Rat(873, 100000),
   translate |-> Rat(1, 100), derivative_angle |-> Rat(873, 100000),
   repeat_derivative_angle |-> Rat(1763, 10000)]

\* AddConstant: the nodes of a constant channel.
\* An AddConstant that adds no node.
ConstantNodes_NoNode(const_val) == <<>>

ConstantNodes(const_val) == <<SplineNode(0, const_val, Zero)>>

TranslateInputs ==
  {ConstantNodes(FromInt(-1)), ConstantNodes(FromInt(1)),
   <<SplineNode(0, Zero, Zero), SplineNode(1, One, Zero)>>}
ConstantInputs == {ConstantNodes(FromInt(1))}
RotateInputs == {ConstantNodes(FromInt(1))}
ScaleZInputs == {ConstantNodes(One), ConstantNodes(FromInt(2))}
ScaleInputs ==
  {ConstantNodes(One), ConstantNodes(Rat(201, 200)), ConstantNodes(FromInt(2)),
   <<SplineNode(0, One, Zero), SplineNode(1, FromInt(2), Zero)>>}

\* A property's channel for one axis: left out, or allocated with nodes.
ChannelSlot(op, id, inputs) ==
  {<<>>} \union {<<[Channel(op, id) EXCEPT !.nodes = n]>> : n \in inputs}

\* LclTranslation x and y, RotationOffset x, PreRotation x and y,
\* LclRotation x, the inverted RotationPivot x, LclScaling x, y, z, appended
\* by AllocChannel in this order.
GatheredChannels ==
  {t1 \o ty \o t2 \o px \o py \o r \o tp \o sx \o sy \o sz :
     t1 \in ChannelSlot(kTranslateX, 0, TranslateInputs),
     ty \in ChannelSlot(kTranslateY, 1, ConstantInputs),
     t2 \in ChannelSlot(kTranslateX, 0, ConstantInputs),
     px \in ChannelSlot(kRotateAboutX, 3, RotateInputs),
     py \in ChannelSlot(kRotateAboutY, 4, RotateInputs),
     r \in ChannelSlot(kRotateAboutX, 6, RotateInputs),
     tp \in ChannelSlot(kTranslateX, 12, ConstantInputs),
     sx \in ChannelSlot(kScaleX, 15, ScaleInputs),
     sy \in ChannelSlot(kScaleY, 16, ScaleInputs),
     sz \in ChannelSlot(kScaleZ, 17, ScaleZInputs)}

PrunedChannels ==
  {<<>>,
   <<[Channel(kTranslateX, 0) EXCEPT !.nodes = ConstantNodes(FromInt(1))]>>,
   <<[Channel(kTranslateX, 0) EXCEPT
        !.nodes = <<SplineNode(0, Zero, Zero), SplineNode(1, One, Zero)>>],
     [Channel(kScaleX, 15) EXCEPT !.nodes = ConstantNodes(FromInt(2))]>>}

InitPruneChannels ==
  /\ \E pruned \in PrunedChannels : \E gathered \in GatheredChannels :
       bones_ = <<[Bone(-1) EXCEPT !.channels = pruned],
                  [Bone(0) EXCEPT !.channels = gathered]>>
  /\ cur_bone_index_ = 1
  /\ tolerances_ = ChannelTolerances
  /\ pc = "gathered"
  /\ stack = <<>>
  /\ curve = [time_start |-> 0, time_end |-> 0, vals |-> <<>>,
              derivatives |-> <<>>]
  /\ before = <<>>
  /\ log = <<>>

\* The call PruneChannels(): log gets what the loop did, before the bones
\* it started from.
PruneChannels ==
  /\ pc = "gathered"
  /\ \E out \in PruneBones(0, <<>>) :
       /\ bones_' = out.bones
       /\ log' = out.events
  /\ before' = bones_
  /\ pc' = "pruned_channels"
  /\ UNCHANGED <<cur_bone_index_, tolerances_, stack, curve>>

\* PruneChannels() once more, as the gathering of the next node calls it:
\* stack keeps what the first call did, log gets what this one does, before
\* the bones it started from.
PruneChannelsAgain ==
  /\ pc = "pruned_channels"
  /\ \E out \in PruneBones(0, <<>>) :
       /\ bones_' = out.bones
       /\ log' = out.events
  /\ before' = bones_
  /\ stack' = log
  /\ pc' = "pruned_again"
  /\ UNCHANGED <<cur_bone_index_, tolerances_, curve>>

NextPruneChannels == PruneChannels \/ PruneChannelsAgain

SpecPruneChannels == InitPruneChannels /\ [][NextPruneChannels]_vars

---------------------------------------------------------------------------
(* Claims about PruneChannels.                                             *)

Collapses == {k \in 1..Len(log) : log[k].kind = "collapse"}

\* C9: whenever three consecutive channels are replaced by one
\* kScaleUniformly channel, their ops were scaleX, scaleY and scaleZ in some
\* order, their node lists had the same length, and at every node index the
\* three nodes had the same time and values pairwise less than
\* tolerances_.scale apart, so that the new channel's values are within the
\* scale tolerance of each original.
C9_UniformScaleSound ==
  \A k \in Collapses :
    LET from == log[k].from
        to == log[k].to
    IN  /\ {from[1].op, from[2].op, from[3].op} = {kScaleX, kScaleY, kScaleZ}
        /\ to.op = kScaleUniformly
        /\ \A c \in 1..3 : Len(from[c].nodes) = Len(to.nodes)
        /\ \A i \in 1..Len(to.nodes) : \A c \in 1..3 : \A e \in 1..3 :
             /\ from[c].nodes[i].time = from[e].nodes[i].time
             /\ RLess(RAbs(RSub(from[c].nodes[i].val, from[e].nodes[i].val)),
                      tolerances_.scale)
             /\ RLess(RAbs(RSub(to.nodes[i].val, from[c].nodes[i].val)),
                      tolerances_.scale)

NeutralValue(op) ==
  IF op \in {kScaleX, kScaleY, kScaleZ, kScaleUniformly} THEN One ELSE Zero

\* C10: after PruneChannels no bone has a single-node channel whose value is
\* less than the tolerance of its op away from the op's neutral value, 1 for
\* the scale ops and 0 for translate and rotate.
C10_NoDefaultConstant ==
  pc = "pruned_channels" =>
    \A b \in 1..Len(bones_) : \A c \in 1..Len(bones_[b].channels) :
      LET channel == bones_[b].channels[c]
      IN  ~(/\ Len(channel.nodes) = 1
            /\ RLess(RAbs(RSub(channel.nodes[1].val, NeutralValue(channel.op))),
                     ToleranceForOp(channel.op)))

\* C10 witness: with scale tolerance 0.005 a scale channel holding the single
\* node (0, 1, 0) was removed, and so was a channel that a sum had just
\* brought to its neutral value.
C10_Witness ==
  /\ pc = "pruned_channels"
  /\ tolerances_.scale = Rat(1, 200)
  /\ \E k \in 1..Len(log) :
       /\ log[k].kind = "omit"
       /\ ScaleOp(log[k].to.op)
       /\ log[k].to.nodes = <<SplineNode(0, One, Zero)>>
  /\ \E k \in 2..Len(log) :
       /\ log[k].kind = "omit"
       /\ log[k - 1].kind = "sum"
       /\ log[k - 1].to = log[k].to
  /\ \E c \in 1..Len(bones_[2].channels) :
       bones_[2].channels[c].nodes = ConstantNodes(Rat(201, 200))


IsSortedById(channels) ==
  \A c \in 1..(Len(channels) - 1) : channels[c].id <= channels[c + 1].id

\* C11 (as stated): after the AllocChannel calls of a bone and after every
\* collapse, summing erase and default-value erase of PruneChannels, the
\* bone's channels are in ascending order of id.
C11_SortedAfterEveryChange ==
  /\ pc = "gathered" => \A b \in 1..Len(bones_) : IsSortedById(bones_[b].channels)
  /\ \A k \in 1..Len(log) : IsSortedById(log[k].after)

\* C11 (amended): when PruneChannels has returned, the channels of every bone
\* are in ascending order of id.
C11_SortedAfterPruneChannels ==
  pc = "pruned_channels" =>
    \A b \in 1..Len(bones_) : IsSortedById(bones_[b].channels)

\* C11 witness: PruneChannels started from a bone whose channels AllocChannel
\* had left out of order, its last erase left them out of order, and two or
\* more channels remain.
C11_Witness ==
  /\ pc = "pruned_channels"
  /\ ~IsSortedById(before[2].channels)
  /\ Len(log) > 0
  /\ ~IsSortedById(log[Len(log)].after)
  /\ Len(bones_[2].channels) >= 2


---------------------------------------------------------------------------
(* FlatAnim::FirstNonRepeatingBone and FlatAnim::Repeat.                   *)

\* same: the start and the end of the channel are the same.
SameStartEnd(channel) ==
  LET start == channel.nodes[1]
      end == channel.nodes[Len(channel.nodes)]
      diff_val == RAbs(RSub(start.val, end.val))
      tolerance == ToleranceForOp(channel.op)
  IN  /\ RLess(diff_val, tolerance)
      /\ DerivativeAngleWithin(RSub(start.derivative, end.derivative),
                               tolerances_.repeat_derivative_angle)

\* The loops over bone_idx and channel_id from (bone_idx, channel_id) on.
\* kInvalidBoneIdx is the result with invalid set.
RECURSIVE FirstNonRepeatingFrom(_, _)
FirstNonRepeatingFrom(bone_idx, channel_id) ==
  IF bone_idx >= Len(bones_)
  THEN [invalid |-> TRUE, bone_idx |-> bone_idx, channel_id |-> 0]
  ELSE IF channel_id >= Len(bones_[bone_idx + 1].channels)
  THEN FirstNonRepeatingFrom(bone_idx + 1, 0)
  ELSE IF ~SameStartEnd(bones_[bone_idx + 1].channels[channel_id + 1])
  THEN [invalid |-> FALSE, bone_idx |-> bone_idx, channel_id |-> channel_id]
  ELSE FirstNonRepeatingFrom(bone_idx, channel_id + 1)

FirstNonRepeatingBone == FirstNonRepeatingFrom(0, 0)

RepeatPreferences == {"kRepeatIfRepeatable", "kAlwaysRepeat", "kNeverRepeat"}

\* The value Repeat(repeat_preference) returns.
RepeatOf(repeat_preference) ==
  IF repeat_preference = "kNeverRepeat" THEN FALSE
  ELSE \/ repeat_preference = "kAlwaysRepeat"
       \/ /\ repeat_preference = "kRepeatIfRepeatable"
          /\ FirstNonRepeatingBone.invalid

---------------------------------------------------------------------------
(* Deciding the repeat flag of a finished animation: one bone pruned and   *)
(* one or two channels on the next, each a constant or a curve of two      *)
(* nodes.                                                                  *)

RepeatVals == {FromInt(0), FromInt(1)}
RepeatDerivatives == {FromInt(0), FromInt(2), FromInt(3)}

RepeatNodes ==
  {ConstantNodes(v) : v \in RepeatVals}
    \union {<<SplineNode(0, v0, d0), SplineNode(2, v1, d1)>> :
              v0 \in RepeatVals, v1 \in RepeatVals,
              d0 \in RepeatDerivatives, d1 \in RepeatDerivatives}

RepeatChannels ==
  {<<[Channel(kTranslateX, 0) EXCEPT !.nodes = n]>> : n \in RepeatNodes}
    \union {<<[Channel(kTranslateX, 0) EXCEPT !.nodes = n],
              [Channel(kRotateAboutX, 6) EXCEPT !.nodes = m]>> :
              n \in RepeatNodes, m \in RepeatNodes}

InitRepeat ==
  /\ \E pruned \in PrunedChannels : \E channels \in RepeatChannels :
       bones_ = <<[Bone(-1) EXCEPT !.channels = pruned],
                  [Bone(0) EXCEPT !.channels = channels]>>
  /\ cur_bone_index_ = -1
  /\ tolerances_ = ChannelTolerances
  /\ pc = "output"
  /\ stack = <<>>
  /\ curve = [time_start |-> 0, time_end |-> 0, vals |-> <<>>,
              derivatives |-> <<>>]
  /\ before = <<>>
  /\ log = <<>>

\* The call Repeat(repeat_preference); log gets the preference and the flag.
Repeat ==
  /\ pc = "output"
  /\ \E repeat_preference \in RepeatPreferences :
       log' = <<[repeat_preference |-> repeat_preference,
                 repeat |-> RepeatOf(repeat_preference)]>>
  /\ pc' = "repeat_decided"
  /\ UNCHANGED <<bones_, cur_bone_index_, tolerances_, stack, curve, before>>

NextRepeat == Repeat

SpecRepeat == InitRepeat /\ [][NextRepeat]_vars

---------------------------------------------------------------------------
(* Claims about Repeat.                                                    *)

\* |atan(a) - atan(b)| < atan(slope_tolerance), for a tolerance below a right
\* angle: the two directions are less than a right angle apart and the
\* tangent of the angle between them is below the tolerance's slope.
AngleDifferenceWithin(a, b, slope_tolerance) ==
  LET cos_part == RAdd(One, RMul(a, b))
  IN  /\ RLess(Zero, cos_part)
      /\ RLess(RAbs(RSub(a, b)), RMul(slope_tolerance, cos_part))

\* First and last node of the channel within the repeat tolerance: the values
\* by the tolerance of the op, the derivative angles by the repeat tolerance.
Repeatable(channel) ==
  LET first == channel.nodes[1]
      last == channel.nodes[Len(channel.nodes)]
  IN  /\ RLess(RAbs(RSub(first.val, last.val)), ToleranceForOp(channel.op))
      /\ AngleDifferenceWithin(first.derivative, last.derivative,
                               tolerances_.repeat_derivative_angle)

\* C12: with kRepeatIfRepeatable the repeat flag is true if and only if, in
\* every channel of every bone, the values of the first and last node and the
\* derivative angles of the first and last node are within the repeat
\* tolerance of each other.
C12_RepeatIffRepeatable ==
  (pc = "repeat_decided" /\ log[1].repeat_preference = "kRepeatIfRepeatable") =>
    (log[1].repeat <=>
       \A b \in 1..Len(bones_) : \A c \in 1..Len(bones_[b].channels) :
         Repeatable(bones_[b].channels[c]))


---------------------------------------------------------------------------
(* The steps of RunAnimPipeline after the channels are gathered:           *)
(* ShiftTime, ExtendChannelsToTime and the CompactSpline of each channel.  *)

\* The times MinAnimatedTime and MaxAnimatedTime range over: the first, or
\* the last, node time of every channel with more than one node.
AnimatedTimes(first) ==
  UNION {{IF first THEN bones_[b].channels[c].nodes[1].time
          ELSE bones_[b].channels[c].nodes[Len(bones_[b].channels[c].nodes)].time :
            c \in {k \in 1..Len(bones_[b].channels) :
                     Len(bones_[b].channels[k].nodes) > 1}} :
         b \in 1..Len(bones_)}

MaxAnimatedTime ==
  LET times == AnimatedTimes(FALSE)
  IN  IF times = {} THEN 0 ELSE CHOOSE t \in times : \A u \in times : u <= t

MinAnimatedTime ==
  LET times == AnimatedTimes(TRUE)
  IN  IF times = {} THEN 0 ELSE CHOOSE t \in times : \A u \in times : t <= u

\* A shift that moves the first node of each channel only.
ShiftTime_FirstNodeOnly(time_offset) ==
  [b \in 1..Len(bones_) |->
     [bones_[b] EXCEPT !.channels =
        [c \in 1..Len(bones_[b].channels) |->
           [bones_[b].channels[c] EXCEPT !.nodes =
              [k \in 1..Len(bones_[b].channels[c].nodes) |->
                 [bones_[b].channels[c].nodes[k] EXCEPT
                    !.time = IF k = 1 THEN @ + time_offset ELSE @]]]]]]

\* The bones after ShiftTime(time_offset).
ShiftTime(time_offset) ==
  [b \in 1..Len(bones_) |->
     [bones_[b] EXCEPT !.channels =
        [c \in 1..Len(bones_[b].channels) |->
           [bones_[b].channels[c] EXCEPT !.nodes =
              [k \in 1..Len(bones_[b].channels[c].nodes) |->
                 [bones_[b].channels[c].nodes[k] EXCEPT
                    !.time = @ + time_offset]]]]]]

\* (mutant) the node at end_time is appended before the flat node at the
\* old end.
ExtendNodes_EndFirst(n, end_time) ==
  IF Len(n) <= 1 THEN n
  ELSE LET back == n[Len(n)]
       IN  IF back.time >= end_time THEN n
           ELSE Append(Append(n, SplineNode(end_time, back.val, Zero)),
                       SplineNode(back.time, back.val, Zero))

\* An extension that never puts the flat node at the old end.
ExtendNodes_NoFlatNode(n, end_time) ==
  IF Len(n) <= 1 THEN n
  ELSE LET back == n[Len(n)]
       IN  IF back.time >= end_time THEN n
           ELSE Append(n, SplineNode(end_time, back.val, Zero))

\* The nodes of one channel after ExtendChannelsToTime(end_time).
ExtendNodes(n, end_time) ==
  IF Len(n) <= 1 THEN n
  ELSE LET back == n[Len(n)]
           flat == IF back.derivative # Zero
                   THEN Append(n, SplineNode(back.time, back.val, Zero))
                   ELSE n
       IN  IF back.time >= end_time THEN n
           ELSE Append(flat, SplineNode(end_time, back.val, Zero))

\* The bones after ExtendChannelsToTime(end_time).
ExtendChannelsToTime(end_time) ==
  [b \in 1..Len(bones_) |->
     [bones_[b] EXCEPT !.channels =
        [c \in 1..Len(bones_[b].channels) |->
           [bones_[b].channels[c] EXCEPT
              !.nodes = ExtendNodes(@, end_time)]]]]

\* (mutant) the node time is handed over as it is stored.
AddNodeTime_Unclamped(time) == time

\* n_time: std::max(0, n->time).
AddNodeTime(time) == IF 0 > time THEN 0 ELSE time

\* CreateCompactSpline(ch): the AddNode calls, in order.
CreateCompactSpline(ch) ==
  [k \in 1..Len(ch.nodes) |->
     [x |-> AddNodeTime(ch.nodes[k].time), y |-> ch.nodes[k].val,
      derivative |-> ch.nodes[k].derivative]]

\* CreateRigAnimFbFromBoneRange over all bones: one entry for each channel,
\* a constant or the AddNode calls of its spline, with the warning flag.
RECURSIVE OutputChannels(_, _)
OutputChannels(b, c) ==
  IF b > Len(bones_) THEN <<>>
  ELSE IF c > Len(bones_[b].channels) THEN OutputChannels(b + 1, 1)
  ELSE LET ch == bones_[b].channels[c]
           n == ch.nodes
           entry == IF Len(n) <= 1
                    THEN [bone |-> b - 1, channel |-> c - 1, constant |-> TRUE,
                          warning |-> FALSE, add_node |-> <<>>]
                    ELSE [bone |-> b - 1, channel |-> c - 1, constant |-> FALSE,
                          warning |-> n[1].time < 0,
                          add_node |-> CreateCompactSpline(ch)]
       IN  <<entry>> \o OutputChannels(b, c + 1)


---------------------------------------------------------------------------
(* One bone from gathering to output: a curve of one or two key intervals  *)
(* is fitted into channel 0 and pruned, a second channel may follow, and   *)
(* the rest of the pipeline runs.                                          *)

PipeIntervals == {1, 2}
PipeCounts == {2, 3}
PipeVals == {FromInt(0), FromInt(1)}
PipeDerivatives == {FromInt(0), FromInt(1)}
PipeStartTimes == {-1, 1}
NextChannelNodes ==
  {ConstantNodes(FromInt(1)),
   <<SplineNode(0, Zero, Zero), SplineNode(1, One, One)>>,
   <<SplineNode(-1, Zero, One), SplineNode(-1, One, Zero),
     SplineNode(2, One, Zero)>>}

\* RotationOffset x, which sums into LclTranslation x, or LclRotation x.
NextChannels == {Channel(kTranslateX, 0), Channel(kRotateAboutX, 6)}

InitPipeline ==
  /\ bones_ = <<[Bone(-1) EXCEPT !.channels = <<Channel(kTranslateX, 0)>>]>>
  /\ cur_bone_index_ = 0
  /\ tolerances_ = FitTolerances
  /\ pc = "key"
  /\ stack = <<>>
  /\ curve = [time_start |-> 0, time_end |-> 0, vals |-> <<>>,
              derivatives |-> <<>>]
  /\ before = <<>>
  /\ log = <<>>

\* GatherFlatAnimCurve, one key interval: the samples start at the value the
\* interval before ended with, and AddCurve is called on them.  before
\* counts the intervals.
GatherKeyInterval ==
  /\ pc \in {"key", "fitted"}
  /\ Len(before) + 1 \in PipeIntervals
  /\ \E count \in PipeCounts, width \in 0..MaxPipeWidth,
        time_start \in (IF pc = "key" THEN PipeStartTimes ELSE {curve.time_end}) :
       \E vals \in [1..count -> PipeVals], d \in PipeDerivatives :
         /\ pc = "fitted" => vals[1] = curve.vals[Len(curve.vals)]
         /\ curve' = [time_start |-> time_start, time_end |-> time_start + width,
                      vals |-> vals, derivatives |-> [i \in 1..count |-> d]]
         /\ stack' = <<Frame(time_start, time_start + width, 1, count)>>
         /\ before' = Append(before, <<time_start, time_start + width>>)
  /\ pc' = "fitting"
  /\ log' = <<>>
  /\ UNCHANGED <<bones_, cur_bone_index_, tolerances_>>

\* GatherFlatAnimCurve after its last key interval: PruneNodes(channel_id).
GatherPruneNodes ==
  /\ pc = "fitted"
  /\ bones_' = WithNodes(0, PruneNodesOf(CurChannels[1].nodes, Tolerance(0)).nodes)
  /\ pc' = "curve_gathered"
  /\ UNCHANGED <<cur_bone_index_, tolerances_, stack, curve, before, log>>

\* GatherFlatAnimForNode, the next property: AllocChannel and AddConstant, or
\* AllocChannel and the nodes of a gathered curve.
GatherNextChannel ==
  /\ pc = "curve_gathered"
  /\ \E n \in NextChannelNodes, next \in NextChannels :
       bones_' = [bones_ EXCEPT ![cur_bone_index_ + 1].channels =
                    Append(@, [next EXCEPT !.nodes = n])]
  /\ pc' = "gathered"
  /\ UNCHANGED <<cur_bone_index_, tolerances_, stack, curve, before, log>>

\* GatherFlatAnimForNode with no further channel.
GatherNoMoreChannels ==
  /\ pc = "curve_gathered"
  /\ pc' = "gathered"
  /\ UNCHANGED <<bones_, cur_bone_index_, tolerances_, stack, curve, before, log>>

\* anim.ShiftTime(-anim.MinAnimatedTime())
ShiftTimeCall ==
  /\ pc = "pruned_channels"
  /\ bones_' = ShiftTime(-MinAnimatedTime)
  /\ pc' = "shifted"
  /\ UNCHANGED <<cur_bone_index_, tolerances_, stack, curve, before, log>>

\* args.preserve_start_time
PreserveStartTime ==
  /\ pc = "pruned_channels"
  /\ pc' = "shifted"
  /\ UNCHANGED <<bones_, cur_bone_index_, tolerances_, stack, curve, before, log>>

\* anim.ExtendChannelsToTime(anim.MaxAnimatedTime()); before gets the bones
\* as they were.
ExtendChannelsCall ==
  /\ pc = "shifted"
  /\ bones_' = ExtendChannelsToTime(MaxAnimatedTime)
  /\ before' = bones_
  /\ pc' = "extended"
  /\ UNCHANGED <<cur_bone_index_, tolerances_, stack, curve, log>>

\* args.stagger_end_times
StaggerEndTimes ==
  /\ pc = "shifted"
  /\ before' = bones_
  /\ pc' = "extended"
  /\ UNCHANGED <<bones_, cur_bone_index_, tolerances_, stack, curve, log>>

\* OutputFlatBuffer: log gets what is written for each channel.
OutputFlatBuffer ==
  /\ pc = "extended"
  /\ log' = OutputChannels(1, 1)
  /\ pc' = "output_done"
  /\ UNCHANGED <<bones_, cur_bone_index_, tolerances_, stack, curve, before>>

NextPipeline ==
  \/ GatherKeyInterval
  \/ AddCurveSplit
  \/ AddCurveEmit
  \/ GatherPruneNodes
  \/ GatherNextChannel
  \/ GatherNoMoreChannels
  \/ PruneChannels
  \/ ShiftTimeCall
  \/ PreserveStartTime
  \/ ExtendChannelsCall
  \/ StaggerEndTimes
  \/ OutputFlatBuffer

SpecPipeline == InitPipeline /\ [][NextPipeline]_vars

---------------------------------------------------------------------------
(* Claims about the times of the nodes.                                    *)

TimesNonDecreasing(n) == \A k \in 1..(Len(n) - 1) : n[k].time <= n[k + 1].time

\* C13: from the first AddCurve call to the output, the node times of every
\* channel are non-decreasing, and so are the times CreateCompactSpline hands
\* to AddNode.
C13_TimeOrderPreserved ==
  /\ \A b \in 1..Len(bones_) : \A c \in 1..Len(bones_[b].channels) :
       TimesNonDecreasing(bones_[b].channels[c].nodes)
  /\ pc = "output_done" =>
       \A e \in 1..Len(log) :
         \A k \in 1..(Len(log[e].add_node) - 1) :
           log[e].add_node[k].x <= log[e].add_node[k + 1].x


\* C13 witness: a curve that started at time 1 was shifted to 0, a channel
\* was extended by a flat node and an end node, and both channels were
\* written as splines.
C13_Witness ==
  /\ pc = "output_done"
  /\ Len(log) = 2
  /\ ~log[1].constant /\ ~log[2].constant
  /\ before[1].channels[1].nodes[1].time = 0
  /\ \E c \in 1..2 :
       Len(log[c].add_node) = Len(before[1].channels[c].nodes) + 2


\* C14: the times CreateCompactSpline hands to AddNode for one spline are
\* strictly increasing: no two consecutive AddNode calls carry the same time.
C14_AddNodeStrictlyIncreasing ==
  pc = "output_done" =>
    \A e \in 1..Len(log) :
      \A k \in 1..(Len(log[e].add_node) - 1) :
        log[e].add_node[k].x < log[e].add_node[k + 1].x


---------------------------------------------------------------------------
(* Claims about the constant collapse of PruneNodes.                       *)

\* The C indices of the nodes of `before` that the last PruneNodes did not
\* mark in the vector prune.
Remaining == {k \in 0..(Len(before) - 1) : ~log[Len(log)].prune[k + 1]}

\* Exactly two nodes remain after the removal of the redundant nodes, their
\* values differ by less than the channel's tolerance and the derivative
\* angle of each is within tolerances_.derivative_angle of zero.
TwoAlikeFlatRemain ==
  /\ Cardinality(Remaining) = 2
  /\ \E a \in Remaining : \E b \in Remaining :
       /\ a < b
       /\ RLess(RAbs(RSub(before[a + 1].val, before[b + 1].val)),
                ToleranceForOp(bones_[1].channels[1].op))
       /\ DerivativeAngleWithin(before[a + 1].derivative,
                                tolerances_.derivative_angle)
       /\ DerivativeAngleWithin(before[b + 1].derivative,
                                tolerances_.derivative_angle)

\* C15: PruneNodes, called on a channel of two or more nodes, leaves a single
\* node, the channel's first node, if and only if exactly two nodes remain
\* after the removal of the redundant nodes, with values less than the
\* tolerance apart and both derivative angles within
\* tolerances_.derivative_angle of zero; in particular two remaining nodes
\* whose values are at least the tolerance apart are both kept.
C15_ConstantCollapse ==
  (pc \in {"pruned", "pruned_twice"} /\ Len(before) >= 2) =>
    /\ Len(PrunedNodes) = 1 <=> TwoAlikeFlatRemain
    /\ Len(PrunedNodes) = 1 => PrunedNodes[1] = before[1]
    /\ Len(PrunedNodes) /= 1 =>
         PrunedNodes = [k \in 1..Cardinality(Remaining) |->
                          before[1 + CHOOSE m \in Remaining :
                                   Cardinality({r \in Remaining : r < m}) = k - 1]]

\* A channel of three nodes or more collapsed to its first node.
C15_Witness ==
  /\ pc = "pruned"
  /\ Len(before) >= 3
  /\ Len(PrunedNodes) = 1
  /\ TwoAlikeFlatRemain

\* Two flat nodes with different values stayed two nodes.
C15_KeptApart ==
  /\ pc = "pruned"
  /\ Len(PrunedNodes) = 2
  /\ Cardinality(Remaining) = 2
  /\ \A k \in 1..Len(before) : before[k].derivative = Zero
  /\ PrunedNodes[1].val /= PrunedNodes[2].val


---------------------------------------------------------------------------
(* Claims about SummableChannel.                                           *)

\* Channel s comes after channel ch, has the op of ch, and what lies strictly
\* between them is nothing for a rotate op, translate ops only for a
\* translate op, scale ops only for a scale op.
Eligible(channels, ch, s) ==
  /\ ch < s
  /\ s < Len(channels)
  /\ channels[s + 1].op = channels[ch + 1].op
  /\ RotateOp(channels[ch + 1].op) => s = ch + 1
  /\ \A m \in (ch + 1)..(s - 1) :
       /\ TranslateOp(channels[ch + 1].op) => TranslateOp(channels[m + 1].op)
       /\ ScaleOp(channels[ch + 1].op) => ScaleOp(channels[m + 1].op)

Sums == {k \in 1..Len(log) : log[k].kind = "sum"}

\* C16: on the channels of every bone, gathered or pruned,
\* SummableChannel(channels, ch) is an index s > ch of a channel of the same
\* op with only translate ops in between for a translate op, only scale ops
\* for a scale op and nothing for a rotate op, and is -1 when there is no
\* such index; the two channels that PruneChannels sums are such a pair, a
\* rotate channel and the channel right after it in particular.
C16_SummableEligible ==
  /\ \A b \in 1..Len(bones_) : \A ch \in 0..(Len(bones_[b].channels) - 1) :
       LET channels == bones_[b].channels
           s == SummableChannel(channels, ch)
       IN  /\ s /= -1 => Eligible(channels, ch, s)
           /\ s = -1 => \A e \in 0..(Len(channels) - 1) :
                          ~Eligible(channels, ch, e)
  /\ \A k \in Sums :
       /\ Eligible(log[k].channels, log[k].ch, log[k].summable_ch)
       /\ log[k].from = <<log[k].channels[log[k].ch + 1],
                          log[k].channels[log[k].summable_ch + 1]>>
       /\ RotateOp(log[k].from[1].op) => log[k].summable_ch = log[k].ch + 1

\* Two rotate channels next to each other were summed, two translate-x
\* channels were summed across a translate-y channel, and the translate-x
\* channel behind the rotation was left apart from the one in front of it.
C16_Witness ==
  /\ pc = "pruned_channels"
  /\ \E k \in Sums : RotateOp(log[k].from[1].op)
  /\ \E k \in Sums : /\ TranslateOp(log[k].from[1].op)
                     /\ log[k].summable_ch = log[k].ch + 2
  /\ \E c \in 1..Len(bones_[2].channels) : \E e \in 1..Len(bones_[2].channels) :
       /\ c < e
       /\ bones_[2].channels[c].op = kTranslateX
       /\ bones_[2].channels[e].op = kTranslateX
       /\ \E m \in (c + 1)..(e - 1) : RotateOp(bones_[2].channels[m].op)


---------------------------------------------------------------------------
(* Claims about the output of channels that start at a negative time.      *)

\* The spline channels of bones_ whose first node has a negative time, as
\* <<bone index, channel index>>.
NegativeStartChannels ==
  {bc \in UNION {{<<b, c>> : c \in 0..(Len(bones_[b + 1].channels) - 1)} :
                 b \in 0..(Len(bones_) - 1)} :
     LET n == bones_[bc[1] + 1].channels[bc[2] + 1].nodes
     IN  Len(n) > 1 /\ n[1].time < 0}

\* C17: a non-constant channel whose first node time is negative is still
\* output, as a spline and with the warning: AddNode is called once for each
\* of its nodes, with the time max(0, node time), and the nodes stored in
\* the channel are what they were before the output.
C17_NegativeStartIsWarning ==
  [][pc' = "output_done" =>
       /\ bones_' = bones_
       /\ \A bc \in NegativeStartChannels :
            LET n == bones_[bc[1] + 1].channels[bc[2] + 1].nodes
            IN  \E e \in 1..Len(log') :
                  /\ log'[e].bone = bc[1]
                  /\ log'[e].channel = bc[2]
                  /\ ~log'[e].constant
                  /\ log'[e].warning
                  /\ Len(log'[e].add_node) = Len(n)
                  /\ \A k \in 1..Len(n) :
                       /\ log'[e].add_node[k].x >= 0
                       /\ log'[e].add_node[k].x >= n[k].time
                       /\ log'[e].add_node[k].x \in {0, n[k].time}]_vars

\* A channel that starts at a negative time and ends at a positive one was
\* output.
C17_Witness ==
  /\ pc = "output_done"
  /\ \E bc \in NegativeStartChannels :
       LET n == bones_[bc[1] + 1].channels[bc[2] + 1].nodes
       IN  n[Len(n)].time > 0


---------------------------------------------------------------------------
(* Claims about the width of the cubics that are evaluated.                *)

\* C18: no cubic of width zero is evaluated.  For AddCurve: when the caller's
\* curve has time_end > time_start, every invocation that evaluates its cubic
\* at an intermediate sample (count > 2), the recursive ones included, has
\* time_end > time_start.
C18_NoZeroWidthCubic ==
  (/\ pc = "fitting"
   /\ stack # <<>>
   /\ curve.time_end > curve.time_start
   /\ Head(stack).count > 2) =>
    Head(stack).time_end > Head(stack).time_start


---------------------------------------------------------------------------
(* FbxAnimParser::GatherFlatAnim, the passes that mark and add the bones.  *)
(* The scene is held in curve: its nodes are 1..Len(curve.parent), node 0  *)
(* is the root node, curve.parent[k] is the node that has k as a child and *)
(* curve.attribute[k] says whether k has a skeleton or a mesh.  A node's   *)
(* children are in the order of their numbers.  log is node_to_bone_map    *)
(* (an entry for each node: whether it is in the map, and its value) and   *)
(* stack holds the calls of GatherBonesRecursive that are still to run.    *)

MaxSceneNodes == 4

\* node->GetChild(0..GetChildCount() - 1)
Children(node) ==
  {k \in 1..Len(curve.parent) : curve.parent[k] = node}

\* MarkBoneNodesRecursive(node): need_bone.
RECURSIVE MarkBoneNodesRecursive(_)
MarkBoneNodesRecursive(node) ==
  \/ curve.attribute[node]
  \/ \E child_node \in Children(node) : MarkBoneNodesRecursive(child_node)

\* A variant that hands the children the number of the node itself.
RECURSIVE ChildCalls_NodeAsParent(_, _, _)
ChildCalls_NodeAsParent(node, bone_index, child_node) ==
  IF child_node > Len(curve.parent) THEN <<>>
  ELSE IF curve.parent[child_node] = node
  THEN <<[node |-> child_node, parent_bone_index |-> node]>>
         \o ChildCalls_NodeAsParent(node, bone_index, child_node + 1)
  ELSE ChildCalls_NodeAsParent(node, bone_index, child_node + 1)

\* The loop over the children of node, from child_node on: the calls
\* GatherBonesRecursive(node_to_bone_map, child_node, bone_index, out).
RECURSIVE ChildCalls(_, _, _)
ChildCalls(node, bone_index, child_node) ==
  IF child_node > Len(curve.parent) THEN <<>>
  ELSE IF curve.parent[child_node] = node
  THEN <<[node |-> child_node, parent_bone_index |-> bone_index]>>
         \o ChildCalls(node, bone_index, child_node + 1)
  ELSE ChildCalls(node, bone_index, child_node + 1)

\* The scenes of n nodes: a node's parent is the root node or a node of a
\* smaller number.
Scenes(n) ==
  {[parent |-> parent, attribute |-> attribute] :
     parent \in {f \in [1..n -> 0..(n - 1)] : \A k \in 1..n : f[k] < k},
     attribute \in [1..n -> BOOLEAN]}

InitBones ==
  /\ bones_ = <<>>
  /\ cur_bone_index_ = -1
  /\ tolerances_ = ChannelTolerances
  /\ pc = "scene"
  /\ stack = <<>>
  /\ \E n \in 1..MaxSceneNodes : curve \in Scenes(n)
  /\ before = <<>>
  /\ log = <<>>

\* First pass: determine which nodes are to be treated as bones; then the
\* loop of the second pass makes its calls.
MarkBoneNodes ==
  /\ pc = "scene"
  /\ log' = [node \in 1..Len(curve.parent) |->
               [found |-> MarkBoneNodesRecursive(node), second |-> -1]]
  /\ stack' = ChildCalls(0, -1, 1)
  /\ pc' = IF ChildCalls(0, -1, 1) = <<>> THEN "bones_gathered" ELSE "marked"
  /\ UNCHANGED <<bones_, cur_bone_index_, tolerances_, curve, before>>

\* GatherBonesRecursive on a node that is in the map: AllocBone, and the
\* calls for the children.
GatherBonesRecursive ==
  /\ pc = "marked" /\ stack # <<>>
  /\ LET node == Head(stack).node
         bone_index == Len(bones_)
         calls == ChildCalls(node, bone_index, 1) \o Tail(stack)
     IN  /\ log[node].found
         /\ bones_' = Append(bones_, Bone(Head(stack).parent_bone_index))
         /\ log' = [log EXCEPT ![node].second = bone_index]
         /\ stack' = calls
         /\ pc' = IF calls = <<>> THEN "bones_gathered" ELSE "marked"
  /\ UNCHANGED <<cur_bone_index_, tolerances_, curve, before>>

\* GatherBonesRecursive on a node that is not in the map: AddBoneForNode
\* returns -1 and the children are not visited.
GatherBonesNotFound ==
  /\ pc = "marked" /\ stack # <<>>
  /\ ~log[Head(stack).node].found
  /\ stack' = Tail(stack)
  /\ pc' = IF Tail(stack) = <<>> THEN "bones_gathered" ELSE "marked"
  /\ UNCHANGED <<bones_, cur_bone_index_, tolerances_, curve, before, log>>

NextBones == MarkBoneNodes \/ GatherBonesRecursive \/ GatherBonesNotFound

SpecBones == InitBones /\ [][NextBones]_vars

---------------------------------------------------------------------------
(* Claims about the bone hierarchy.                                        *)

\* The nodes that have been given a bone.
BoneNodes == {node \in 1..Len(log) : log[node].second >= 0}

\* C19: while and after the bones are gathered, every bone's
\* parent_bone_index is -1 or an index smaller than the bone's own, and the
\* bone indices handed out are 0..n-1, one node each, in the order of the
\* allocations: a node's bone comes after the bone of the node above it, which
\* is its parent bone.
C19_BoneHierarchy ==
  pc \in {"marked", "bones_gathered"} =>
    /\ \A b \in 0..(Len(bones_) - 1) :
         \/ bones_[b + 1].parent_bone_index = -1
         \/ /\ 0 <= bones_[b + 1].parent_bone_index
            /\ bones_[b + 1].parent_bone_index < b
    /\ {log[node].second : node \in BoneNodes} = 0..(Len(bones_) - 1)
    /\ Cardinality(BoneNodes) = Len(bones_)
    /\ \A node \in BoneNodes :
         bones_[log[node].second + 1].parent_bone_index =
           IF curve.parent[node] = 0 THEN -1
           ELSE log[curve.parent[node]].second
    /\ pc = "bones_gathered" =>
         BoneNodes = {node \in 1..Len(log) : log[node].found}

\* A scene whose bones are not numbered like its nodes: some bone has a
\* parent other than bone 0, and some node got its bone before a node of a
\* smaller number did.
C19_Witness ==
  /\ pc = "bones_gathered"
  /\ Len(bones_) >= 3
  /\ \E b \in 1..Len(bones_) : bones_[b].parent_bone_index >= 1
  /\ \E node \in BoneNodes : \E other \in BoneNodes :
       node < other /\ log[node].second > log[other].second


---------------------------------------------------------------------------
(* Claims about a curve that one cubic fits.                               *)

\* The nodes at the two ends of the caller's curve.
CurveStartNode ==
  SplineNode(curve.time_start, curve.vals[1], curve.derivatives[1])
CurveEndNode ==
  SplineNode(curve.time_end, curve.vals[CurveCount],
             curve.derivatives[CurveCount])

\* No interior sample is further than the channel's tolerance from the cubic
\* between the two ends of the curve.
InteriorWithinTolerance ==
  \A i \in 1..(CurveCount - 2) :
    RLeq(FitError(CurveStartNode, CurveEndNode, i), Tolerance(0))

\* C20: when no interior sample deviates from the cubic between the end
\* points by more than the channel's tolerance, AddCurve on an empty channel
\* leaves exactly two nodes, (time_start, vals[0], derivatives[0]) and
\* (time_end, vals[count-1], derivatives[count-1]).
C20_TwoNodesWhenWithinTolerance ==
  (pc = "fitted" /\ InteriorWithinTolerance) =>
    FittedNodes = <<CurveStartNode, CurveEndNode>>

\* A curve of three samples or more over a positive width, with an interior
\* sample that is off the cubic but within the tolerance, was fitted by two
\* nodes.
C20_Witness ==
  /\ pc = "fitted"
  /\ CurveCount >= 3
  /\ curve.time_end > curve.time_start
  /\ InteriorWithinTolerance
  /\ \E i \in 1..(CurveCount - 2) :
       RLess(Zero, FitError(CurveStartNode, CurveEndNode, i))
  /\ Len(FittedNodes) = 2

\* Three samples on a line, as evenly spaced values with the line's slope as
\* every derivative, came out as the two end nodes.
C20_LineExample ==
  /\ pc = "fitted"
  /\ curve = [time_start |-> 3, time_end |-> 5,
              vals |-> <<FromInt(0), FromInt(1), FromInt(2)>>,
              derivatives |-> <<One, One, One>>]
  /\ FittedNodes = <<SplineNode(3, FromInt(0), One), SplineNode(5, FromInt(2), One)>>


---------------------------------------------------------------------------
(* Claims about the nodes AddCurve pushes.                                 *)

\* C21: while and after AddCurve runs on a curve with time_end > time_start,
\* with all its recursive invocations, no two consecutive nodes of the
\* channel are equal in time, value and derivative.
C21_NoEqualNeighbours ==
  curve.time_end > curve.time_start =>
    \A k \in 1..(Len(FittedNodes) - 1) : FittedNodes[k] /= FittedNodes[k + 1]


---------------------------------------------------------------------------
(* Claims about the spans of PruneNodes.                                   *)

\* The largest j > i + 1 for which the span n[i..j] of `before` is
\* redundant, or i + 1 if there is none.
NextAnchor(i) ==
  LET spans == {j \in (i + 2)..(Len(before) - 1) :
                  IntermediateNodesRedundant(
                    before, i, j - i + 1,
                    ToleranceForOp(bones_[1].channels[1].op))}
  IN  IF spans = {} THEN i + 1
      ELSE CHOOSE j \in spans : \A m \in spans : m <= j

\* The anchors of the last PruneNodes, from anchor i on.
RECURSIVE AnchorsFrom(_)
AnchorsFrom(i) ==
  IF i >= Len(before) THEN {} ELSE {i} \union AnchorsFrom(NextAnchor(i))

\* C22: in PruneNodes the anchor after anchor i is the largest j > i + 1 for
\* which IntermediateNodesRedundant(n[i..j]) holds, or i + 1 if there is
\* none, and the nodes removed are exactly those with an index strictly
\* between an anchor and the anchor after it.
C22_GreedySpans ==
  (pc \in {"pruned", "pruned_twice"} /\ Len(before) >= 2) =>
    \A k \in 0..(Len(before) - 1) :
      log[Len(log)].prune[k + 1] <=>
        \E i \in AnchorsFrom(0) : i < k /\ k < NextAnchor(i)


---------------------------------------------------------------------------
(* Claims about the normalization of the start time.                       *)

\* The channels of bones_, as <<bone, channel>> (indices from 1).
AllChannels ==
  UNION {{<<b, c>> : c \in 1..Len(bones_[b].channels)} : b \in 1..Len(bones_)}

\* C23: the step from the pruned channels to the shifted ones either leaves
\* the bones as they are (the start time is preserved, or the shift is by 0)
\* or, when some channel has more than one node, makes MinAnimatedTime() 0
\* and every node time of every channel with more than one node >= 0, and
\* keeps every node's value and derivative and the differences between the
\* node times of each channel; when MinAnimatedTime() is 0 already, the
\* step changes nothing.
C23_StartTimeNormalized ==
  [][(pc = "pruned_channels" /\ pc' = "shifted") =>
       /\ MinAnimatedTime = 0 => bones_' = bones_
       /\ \/ bones_' = bones_
          \/ /\ AnimatedTimes(TRUE) # {}
             /\ MinAnimatedTime' = 0
             /\ Len(bones_') = Len(bones_)
             /\ \A bc \in AllChannels :
                  LET n == bones_[bc[1]].channels[bc[2]].nodes
                      m == bones_'[bc[1]].channels[bc[2]].nodes
                  IN  /\ Len(bones_'[bc[1]].channels) = Len(bones_[bc[1]].channels)
                      /\ Len(m) = Len(n)
                      /\ bones_'[bc[1]].channels[bc[2]].op =
                           bones_[bc[1]].channels[bc[2]].op
                      /\ \A k \in 1..Len(n) :
                           /\ m[k].val = n[k].val
                           /\ m[k].derivative = n[k].derivative
                           /\ m[k].time - m[1].time = n[k].time - n[1].time
                           /\ Len(n) > 1 => m[k].time >= 0]_vars

\* A curve that started at time -1 and a curve that started at time 0 have
\* both been shifted by one tick.
C23_Witness ==
  /\ pc = "shifted"
  /\ before[1].channels[1].nodes[1].time = -1
  /\ Len(bones_[1].channels) = 2
  /\ Len(bones_[1].channels[1].nodes) > 1
  /\ bones_[1].channels[1].nodes[1].time = 0
  /\ bones_[1].channels[2].nodes =
       <<SplineNode(1, Zero, Zero), SplineNode(2, One, One)>>


---------------------------------------------------------------------------
(* Claims about the extension of the channels to a common end time.        *)

\* What the claim says channel nodes n look like after
\* ExtendChannelsToTime(T).
ExtendedAsClaimed(n, m, T) ==
  LET back == n[Len(n)]
  IN  IF Len(n) <= 1 \/ back.time >= T THEN m = n
      ELSE /\ m[Len(m)] = SplineNode(T, back.val, Zero)
           /\ SubSeq(m, 1, Len(n)) = n
           /\ IF back.derivative # Zero
              THEN /\ Len(m) = Len(n) + 2
                   /\ m[Len(n) + 1] = SplineNode(back.time, back.val, Zero)
              ELSE Len(m) = Len(n) + 1

\* C24: the step from the shifted channels to the extended ones either
\* leaves the bones as they are (the end times are staggered) or is
\* ExtendChannelsToTime(T) with T = MaxAnimatedTime(): every channel with
\* more than one node and a last time < T gets the node (T, v, 0), v its last
\* value, after a node (last time, v, 0) exactly when its last derivative was
\* not 0, and every other channel is unchanged; then all channels with more
\* than one node end at the same time and the same call again changes
\* nothing.
C24_ExtendedToCommonEnd ==
  [][(pc = "shifted" /\ pc' = "extended") =>
       \/ bones_' = bones_
       \/ /\ Len(bones_') = Len(bones_)
          /\ \A b \in 1..Len(bones_) :
               Len(bones_'[b].channels) = Len(bones_[b].channels)
          /\ \A bc \in AllChannels :
               /\ ExtendedAsClaimed(bones_[bc[1]].channels[bc[2]].nodes,
                                    bones_'[bc[1]].channels[bc[2]].nodes,
                                    MaxAnimatedTime)
               /\ bones_'[bc[1]].channels[bc[2]].op =
                    bones_[bc[1]].channels[bc[2]].op
               /\ bones_'[bc[1]].channels[bc[2]].id =
                    bones_[bc[1]].channels[bc[2]].id
          /\ Cardinality(AnimatedTimes(FALSE)') <= 1
          /\ ExtendChannelsToTime(MaxAnimatedTime)' = bones_']_vars

\* A channel was extended by a flat node and an end node to the end of a
\* longer channel, which stayed as it was.
C24_Witness ==
  /\ pc = "extended"
  /\ Len(bones_[1].channels) = 2
  /\ \E c \in 1..2 : \E e \in 1..2 :
       /\ Len(before[1].channels[c].nodes) > 1
       /\ Len(bones_[1].channels[c].nodes) = Len(before[1].channels[c].nodes) + 2
       /\ Len(before[1].channels[e].nodes) > 1
       /\ bones_[1].channels[e].nodes = before[1].channels[e].nodes


---------------------------------------------------------------------------
(* FbxAnimParser::GatherFlatAnim with its final pass, and the output of    *)
(* the rig animations.  curve holds the inputs of the run: the scene, as   *)
(* for the bones above, with curve.anim[k] the channels that               *)
(* GatherFlatAnimForNode allocates and fills for node k, and the argument  *)
(* root_bones_only.  before lists the nodes GatherFlatAnimForNode was      *)
(* called for.  After the output, log holds what OutputFlatBuffer did.     *)

GatherSceneSizes == {1, 2, 3}

\* What one node's properties give: nothing, one constant, or two constants
\* that sum to the default value and are omitted by PruneChannels.
NodeAnims ==
  {<<>>,
   <<[Channel(kTranslateX, 0) EXCEPT !.nodes = ConstantNodes(FromInt(1))]>>,
   <<[Channel(kTranslateX, 0) EXCEPT !.nodes = ConstantNodes(FromInt(-1))],
     [Channel(kTranslateX, 0) EXCEPT !.nodes = ConstantNodes(FromInt(1))]>>}

GatherInputs(n) ==
  {[parent |-> scene.parent, attribute |-> scene.attribute, anim |-> anim,
    root_bones_only |-> root_bones_only] :
     scene \in Scenes(n), anim \in [1..n -> NodeAnims],
     root_bones_only \in BOOLEAN}

InitGather ==
  /\ bones_ = <<>>
  /\ cur_bone_index_ = -1
  /\ tolerances_ = ChannelTolerances
  /\ pc = "scene"
  /\ stack = <<>>
  /\ \E n \in GatherSceneSizes : curve \in GatherInputs(n)
  /\ before = <<>>
  /\ log = <<>>

\* A walk that goes on below every bone, whatever root_bones_only_ says.
ShouldRecurse_Always(cur_bone_index) == TRUE

ShouldRecurse(cur_bone_index) ==
  ~curve.root_bones_only \/ bones_[cur_bone_index + 1].channels = <<>>

\* The calls GatherFlatAnimRecursive(node_to_bone_map, node->GetChild(i), out)
\* for the children of node, from child_node on.
RECURSIVE ChildWalks(_, _)
ChildWalks(node, child_node) ==
  IF child_node > Len(curve.parent) THEN <<>>
  ELSE IF curve.parent[child_node] = node
  THEN <<[node |-> child_node]>> \o ChildWalks(node, child_node + 1)
  ELSE ChildWalks(node, child_node + 1)

\* GatherFlatAnimRecursive on the root node: no bone, the children are
\* walked.
GatherFlatAnimRoot ==
  /\ pc = "bones_gathered"
  /\ stack' = ChildWalks(0, 1)
  /\ pc' = IF ChildWalks(0, 1) = <<>> THEN "anim_gathered" ELSE "anim"
  /\ UNCHANGED <<bones_, cur_bone_index_, tolerances_, curve, before, log>>

\* GatherFlatAnimRecursive on a node that is not in the map: early out.
GatherFlatAnimNotFound ==
  /\ pc = "anim"
  /\ ~log[Head(stack).node].found
  /\ stack' = Tail(stack)
  /\ pc' = IF Tail(stack) = <<>> THEN "anim_gathered" ELSE "anim"
  /\ UNCHANGED <<bones_, cur_bone_index_, tolerances_, curve, before, log>>

\* out->SetCurBoneIndex(bone_index); the step is taken only when the two
\* assertions of SetCurBoneIndex hold.  The argument is unsigned: the -1 of
\* a node without a bone would be above every size.
SetCurBoneIndex ==
  /\ pc = "anim"
  /\ log[Head(stack).node].found
  /\ 0 <= log[Head(stack).node].second
  /\ log[Head(stack).node].second < Len(bones_)
  /\ cur_bone_index_ = -1
  /\ cur_bone_index_' = log[Head(stack).node].second
  /\ pc' = "cur_bone_set"
  /\ UNCHANGED <<bones_, tolerances_, stack, curve, before, log>>

\* GatherFlatAnimForNode(node, out): the channels are allocated and filled
\* through CurChannels(), then PruneChannels() runs over all bones.
GatherFlatAnimForNode ==
  /\ pc = "cur_bone_set"
  /\ 0 <= cur_bone_index_ /\ cur_bone_index_ < Len(bones_)
  /\ \E out \in PruneBonesOf(
                  [bones_ EXCEPT ![cur_bone_index_ + 1].channels =
                     @ \o curve.anim[Head(stack).node]], 0, <<>>) :
       bones_' = out.bones
  /\ before' = Append(before, Head(stack).node)
  /\ pc' = "node_gathered"
  /\ UNCHANGED <<cur_bone_index_, tolerances_, stack, curve, log>>

\* A return from GatherFlatAnimForNode that leaves the current bone set.
ResetCurBoneIndex_KeepsBone ==
  /\ pc = "node_gathered"
  /\ LET node == Head(stack).node
         walks == IF ShouldRecurse(log[node].second)
                  THEN ChildWalks(node, 1) \o Tail(stack)
                  ELSE Tail(stack)
     IN  /\ stack' = walks
         /\ pc' = IF walks = <<>> THEN "anim_gathered" ELSE "anim"
  /\ UNCHANGED <<bones_, cur_bone_index_, tolerances_, curve, before, log>>

\* out->ResetCurBoneIndex(), and the walk of the children if
\* ShouldRecurse(bone_index).
ResetCurBoneIndex ==
  /\ pc = "node_gathered"
  /\ cur_bone_index_' = -1
  /\ LET node == Head(stack).node
         walks == IF ShouldRecurse(log[node].second)
                  THEN ChildWalks(node, 1) \o Tail(stack)
                  ELSE Tail(stack)
     IN  /\ stack' = walks
         /\ pc' = IF walks = <<>> THEN "anim_gathered" ELSE "anim"
  /\ UNCHANGED <<bones_, tolerances_, curve, before, log>>

\* The bones CreateFlatBuffer makes a RigAnim of when root_bones_only_ is
\* set: those with channels, in index order.
RECURSIVE RigAnimBones(_)
RigAnimBones(bone_idx) ==
  IF bone_idx >= Len(bones_) THEN <<>>
  ELSE IF Len(bones_[bone_idx + 1].channels) = 0 THEN RigAnimBones(bone_idx + 1)
  ELSE <<bone_idx>> \o RigAnimBones(bone_idx + 1)

\* A count that takes every bone, with channels or not.
CreateFlatBuffer_EveryBone == Len(bones_)

\* CreateFlatBuffer: the number of RigAnimFb tables.
CreateFlatBuffer ==
  IF ~curve.root_bones_only THEN 1 ELSE Len(RigAnimBones(0))

\* OutputFlatBuffer and the return of RunAnimPipeline.  ShiftTime and
\* ExtendChannelsToTime, which run before, change no channel list's length.
\* CreateDirectory and fopen succeed or fail.
OutputFlatBufferFile ==
  /\ pc = "anim_gathered"
  /\ \E directory_ok \in BOOLEAN, file_ok \in BOOLEAN :
       LET num_rig_anims == CreateFlatBuffer
           output_status == num_rig_anims # 0 /\ directory_ok /\ file_ok
       IN  log' = <<[num_rig_anims |-> num_rig_anims,
                     rig_anims |-> IF curve.root_bones_only
                                   THEN RigAnimBones(0) ELSE <<-1>>,
                     create_directory |-> num_rig_anims # 0,
                     fopen |-> num_rig_anims # 0 /\ directory_ok,
                     output_status |-> output_status,
                     exit_code |-> IF output_status THEN 0 ELSE 1]>>
  /\ pc' = "output_done"
  /\ UNCHANGED <<bones_, cur_bone_index_, tolerances_, stack, curve, before>>

NextGather ==
  \/ MarkBoneNodes
  \/ GatherBonesRecursive
  \/ GatherBonesNotFound
  \/ GatherFlatAnimRoot
  \/ GatherFlatAnimNotFound
  \/ SetCurBoneIndex
  \/ GatherFlatAnimForNode
  \/ ResetCurBoneIndex
  \/ OutputFlatBufferFile

SpecGather == InitGather /\ [][NextGather]_vars


---------------------------------------------------------------------------
(* Claims about the output when root_bones_only is set.                    *)

\* The bones (C indices) with at least one channel.
BonesWithChannels ==
  {b \in 0..(Len(bones_) - 1) : bones_[b + 1].channels # <<>>}

\* C25: with root_bones_only set, when no bone has a channel CreateFlatBuffer
\* returns 0, OutputFlatBuffer returns false without creating a directory or
\* a file, and RunAnimPipeline returns 1; when k >= 1 bones have channels,
\* exactly k RigAnim tables are made, one for each bone with channels.
C25_NoAnimationPath ==
  (pc = "output_done" /\ curve.root_bones_only) =>
    LET out == log[1]
    IN  /\ BonesWithChannels = {} =>
             /\ out.num_rig_anims = 0
             /\ ~out.output_status
             /\ ~out.create_directory
             /\ ~out.fopen
             /\ out.exit_code = 1
        /\ BonesWithChannels # {} =>
             /\ out.num_rig_anims = Cardinality(BonesWithChannels)
             /\ Len(out.rig_anims) = Cardinality(BonesWithChannels)
             /\ {out.rig_anims[k] : k \in 1..Len(out.rig_anims)} =
                  BonesWithChannels

\* Two of three bones have channels, and two RigAnim tables were written.
C25_Witness ==
  /\ pc = "output_done"
  /\ curve.root_bones_only
  /\ Len(bones_) = 3
  /\ Cardinality(BonesWithChannels) = 2
  /\ log[1].num_rig_anims = 2
  /\ log[1].exit_code = 0

\* Bones were gathered, none with a channel, and the run returned 1.
C25_NoAnimation ==
  /\ pc = "output_done"
  /\ curve.root_bones_only
  /\ Len(bones_) >= 2
  /\ BonesWithChannels = {}
  /\ \E k \in 1..Len(curve.anim) : curve.anim[k] # <<>> /\ log[1].exit_code = 1


---------------------------------------------------------------------------
(* Claims about the walk of GatherFlatAnimRecursive.                       *)

\* The bones on the parent chain of bone b, b itself left out.
RECURSIVE AncestorBones(_)
AncestorBones(b) ==
  LET p == bones_[b + 1].parent_bone_index
  IN  IF p < 0 \/ p >= b THEN {} ELSE {p} \cup AncestorBones(p)

\* The nodes that MarkBoneNodesRecursive put into node_to_bone_map.
MarkedNodes == {node \in 1..Len(curve.parent) : log[node].found}

\* C26: with root_bones_only set, a bone that has a proper ancestor bone
\* with a non-empty channel list has no channel itself, the walk having
\* stopped at the ancestor; with root_bones_only not set,
\* GatherFlatAnimForNode is called once for every marked node.
C26_RootBonesOnlyWalk ==
  /\ (pc \in {"anim", "cur_bone_set", "node_gathered", "anim_gathered",
              "output_done"} /\ curve.root_bones_only) =>
       \A b \in BonesWithChannels :
         AncestorBones(b) \cap BonesWithChannels = {}
  /\ (pc = "anim_gathered" /\ ~curve.root_bones_only) =>
       /\ {before[k] : k \in 1..Len(before)} = MarkedNodes
       /\ Len(before) = Cardinality(MarkedNodes)

\* The walk stopped at a bone with a channel: the node of a bone below it
\* has an animated property, and that bone got no channel.  Another bone's
\* channels were all omitted, and the walk went on to a bone below it.
C26_Witness ==
  /\ pc = "anim_gathered"
  /\ curve.root_bones_only
  /\ \E node \in MarkedNodes :
       /\ Len(curve.anim[node]) = 1
       /\ bones_[log[node].second + 1].channels = <<>>
       /\ AncestorBones(log[node].second) \cap BonesWithChannels # {}
  /\ \E node \in MarkedNodes :
       /\ Len(curve.anim[node]) = 2
       /\ \E k \in 1..Len(before) :
            /\ log[before[k]].second >= 0
            /\ log[node].second \in AncestorBones(log[before[k]].second)


---------------------------------------------------------------------------
(* Claims about the node count of a channel.                               *)

\* C27: every channel holds at least one node whenever it is read: when
\* AddCurve has returned the channel it was called for holds two or more
\* nodes, an added constant is one node, and PruneNodes, SumChannels,
\* PruneChannels, ShiftTime and ExtendChannelsToTime leave no channel
\* without nodes, up to and including the output.
C27_ChannelsHaveNodes ==
  /\ pc = "fitted" => Len(bones_[1].channels[1].nodes) >= 2
  /\ pc \in {"fitted", "curve_gathered", "gathered", "pruned_channels",
             "shifted", "extended", "output_done"} =>
       \A bc \in AllChannels : Len(bones_[bc[1]].channels[bc[2]].nodes) >= 1

\* The curve of channel 0 was fitted and pruned, and PruneChannels summed a
\* second channel with nodes at other times into it: the one channel left
\* holds the nodes of the sum.
C27_Witness ==
  /\ pc = "pruned_channels"
  /\ \E k \in 1..Len(log) : log[k].kind = "sum"
  /\ Len(before[1].channels) = 2
  /\ Len(before[1].channels[2].nodes) = 3
  /\ Len(bones_[1].channels) = 1
  /\ Len(bones_[1].channels[1].nodes) >= 2

\* A curve that PruneNodes collapsed to one node is written as a constant.
C27_CollapsedToOneNode ==
  /\ pc = "output_done"
  /\ Len(bones_[1].channels) = 2
  /\ Len(bones_[1].channels[1].nodes) = 1
  /\ log[1].constant


---------------------------------------------------------------------------
(* Claims about what PruneNodes deletes.                                   *)

\* The nodes a[i], a[i + 1], ... are found in this order in b[j], b[j + 1],
\* ...
RECURSIVE SubsequenceFrom(_, _, _, _)
SubsequenceFrom(a, i, b, j) ==
  IF i > Len(a) THEN TRUE
  ELSE IF j > Len(b) THEN FALSE
  ELSE IF a[i] = b[j] THEN SubsequenceFrom(a, i + 1, b, j + 1)
  ELSE SubsequenceFrom(a, i, b, j + 1)

\* C28: PruneNodes, called on one node or more, leaves a subsequence of the
\* nodes it started from, in their order and with their times, values and
\* derivatives; the first node stays and, unless the constant collapse
\* fires, so does the last: neither is ever marked in prune.
C28_OnlyInteriorDeleted ==
  pc \in {"pruned", "pruned_twice"} =>
    LET last == log[Len(log)]
    IN  /\ Len(before) >= 1
        /\ Len(PrunedNodes) >= 1
        /\ Len(PrunedNodes) <= Len(before)
        /\ SubsequenceFrom(PrunedNodes, 1, before, 1)
        /\ PrunedNodes[1] = before[1]
        /\ ~last.prune[1]
        /\ ~last.prune[Len(before)]
        /\ ~last.is_const => PrunedNodes[Len(PrunedNodes)] = before[Len(before)]
        /\ last.is_const => PrunedNodes = <<before[1]>>

\* Interior nodes were deleted from four nodes with different first and last
\* values, and the constant collapse did not fire.
C28_Witness ==
  /\ pc = "pruned"
  /\ Len(before) = 4
  /\ Len(PrunedNodes) \in {2, 3}
  /\ ~log[1].is_const
  /\ before[1].val # before[4].val

\* The second call was on one node, and left it.
C28_OneNode ==
  /\ pc = "pruned_twice"
  /\ Len(before) = 1
  /\ PrunedNodes = before


---------------------------------------------------------------------------
(* Claims about the current bone.                                          *)

\* The channel lists of the bones, one for each bone.
BoneChannels == [b \in 1..Len(bones_) |-> bones_[b].channels]

\* C29: during GatherFlatAnim, SetCurBoneIndex is called only while no
\* current bone is set and with an index of bones_, so both of its
\* assertions hold; between it and the ResetCurBoneIndex that follows the
\* current bone is the bone of the node being gathered; outside there is no
\* current bone; cur_bone_index_ changes only from -1 to such an index and
\* back; and the channels are changed only while a current bone is set.
C29_CurBoneProtocol ==
  /\ [](/\ (pc = "anim" /\ log[Head(stack).node].found) =>
             /\ cur_bone_index_ = -1
             /\ 0 <= log[Head(stack).node].second
             /\ log[Head(stack).node].second < Len(bones_)
        /\ pc \in {"cur_bone_set", "node_gathered"} =>
             /\ 0 <= cur_bone_index_ /\ cur_bone_index_ < Len(bones_)
             /\ cur_bone_index_ = log[Head(stack).node].second
        /\ pc \notin {"cur_bone_set", "node_gathered"} => cur_bone_index_ = -1)
  /\ [][/\ cur_bone_index_' # cur_bone_index_ =>
             \/ /\ cur_bone_index_ = -1
                /\ pc = "anim" /\ pc' = "cur_bone_set"
                /\ 0 <= cur_bone_index_' /\ cur_bone_index_' < Len(bones_)
             \/ /\ cur_bone_index_' = -1
                /\ pc = "node_gathered"
                /\ 0 <= cur_bone_index_ /\ cur_bone_index_ < Len(bones_)
        /\ BoneChannels' # BoneChannels =>
             \/ Len(bones_') # Len(bones_)
             \/ /\ pc = "cur_bone_set" /\ pc' = "node_gathered"
                /\ cur_bone_index_' = cur_bone_index_
                /\ 0 <= cur_bone_index_ /\ cur_bone_index_ < Len(bones_)]_vars

\* Three bones were set as the current bone and reset, one after the other,
\* and the last one got a channel meanwhile.
C29_Witness ==
  /\ pc = "anim_gathered"
  /\ Len(before) = 3
  /\ cur_bone_index_ = -1
  /\ bones_[log[before[3]].second + 1].channels # <<>>


---------------------------------------------------------------------------
(* Claims about a second PruneChannels.                                    *)

\* C30: PruneChannels, run again on the bones it has processed, collapses,
\* sums and omits nothing and leaves the channel list of every bone as it
\* is: ops, ids, nodes and order.
C30_PruneChannelsIdempotent ==
  pc = "pruned_again" => bones_ = before /\ log = <<>>

\* The first call collapsed the scale channels, summed two channels and
\* omitted one, and the second call has run.
C30_Witness ==
  /\ pc = "pruned_again"
  /\ \E k \in 1..Len(stack) : stack[k].kind = "collapse"
  /\ \E k \in 1..Len(stack) : stack[k].kind = "sum"
  /\ \E k \in 1..Len(stack) : stack[k].kind = "omit"
  /\ bones_ = before


Spec == SpecAddCurve

===========================================================================
